---- MODULE Spec2Model ----
(***************************************************************************)
(* fast-resume: incremental indexing of coding-agent sessions.             *)
(*                                                                         *)
(* The model covers the adapters' incremental diff                         *)
(* (adapters/*.py: find_sessions_incremental), the Tantivy index           *)
(* (index.py) and the aggregator's ingest over them.  Times are integer    *)
(* nanoseconds; a datetime keeps microseconds only.                        *)
(***************************************************************************)
EXTENDS Bags, FiniteSets, Integers, Sequences, TLC

\* ---------------------------------------------------------------- bounds
MaxTick == 3      \* file mtimes are MtimeAt(0) .. MtimeAt(MaxTick)
MaxFiles == 2     \* session files on disk at one time (ingest specification)
MaxDocs == 2      \* documents in the index (schema specification)
EnvTick == 2      \* the ingest specification writes MtimeAt(0) .. MtimeAt(EnvTick)

\* ------------------------------------------------------------- constants
SCHEMA_VERSION == 13
MTIME_TOLERANCE_NS == 1000000      \* the 0.001 s of "mtime > known + 0.001"

Adapters == {"codex", "copilot-cli", "crush", "opencode", "vibe"}
Ids == {"a", "b"}

\* adapters whose cheap id extraction and parse read the id separately
\* (_get_session_id_from_file against _parse_session)
SplitIdAdapters == {"codex", "copilot-cli"}
\* adapters with a second way to have nothing to scan: crush's projects file
\* unreadable, opencode's session directory missing
DegradableAdapters == {"crush", "opencode"}

\* The mtimes the environment gives files: neighbours are about 0.5 ms apart
\* (within the tolerance), values two apart are a little over 1 ms apart, and
\* odd ones carry a sub-microsecond part that a datetime rounds up.
MtimeAt(i) == i * 500150 + (IF i % 2 = 1 THEN 550 ELSE 0)
MTimes == {MtimeAt(i) : i \in 0..MaxTick}

\* datetime.fromtimestamp(t).timestamp(): microsecond resolution
ToTimestamp(ns) == ((ns + 500) \div 1000) * 1000

RootStates(ad) ==
    {"present", "missing"} \cup (IF ad \in DegradableAdapters THEN {"degraded"} ELSE {})

\* adapters whose scan loads each file's content to read id and time, and
\* skips a file it cannot load
ContentScanAdapters == {"opencode", "vibe"}

\* A session file (or relational row) as the adapter sees it, stored under the
\* id the cheap scan reads: mt the value the diff compares, pid the id of the
\* parsed record, ok whether the parse yields a record, rd whether the scan
\* can load the file (a file that does not load does not parse either).
FileRecs(ad, cid) ==
    {f \in [mt : MTimes, pid : (IF ad \in SplitIdAdapters THEN Ids ELSE {cid}),
            ok : BOOLEAN, rd : BOOLEAN] :
        ~f.rd => ad \in ContentScanAdapters /\ ~f.ok}

Injective(files) ==
    \A c1, c2 \in DOMAIN files : files[c1].pid = files[c2].pid => c1 = c2

\* the states of one adapter's source: ids are unique within an agent
FileMaps(ad) ==
    UNION {{f \in [S -> UNION {FileRecs(ad, c) : c \in S}] :
               /\ \A c \in S : f[c] \in FileRecs(ad, c)
               /\ Injective(f)} : S \in SUBSET Ids}

KnownEntries(agents) == [ts : {ToTimestamp(m) : m \in MTimes}, agent : agents]
KnownMaps(agents) == UNION {[S -> KnownEntries(agents)] : S \in SUBSET Ids}

EmptyMap == [x \in {} |-> x]

VARIABLES
    roots,          \* adapter -> state of its source root
    disk,           \* adapter -> (cheap id -> file)
    known,          \* the KnownMap of the running diff
    diffs,          \* adapter -> result of its find_sessions_incremental
    pc,             \* position of the ingest
    index,          \* the index directory: [dir, stamp, open, docs]
    compiled,       \* SCHEMA_VERSION of the running build
    loaded,         \* the aggregator holds a session list
    sessions,       \* the list the aggregator holds: a bag of index documents
                    \* read back, or (search.py) the sequence _sessions
    sessions_by_id, \* the aggregator's id -> record map
    scan,           \* the last scan against the sources: "none" since they
                    \* changed, "first" after a change, "again" without one,
                    \* "forced" with force_refresh
    cache,          \* the cache file sessions.json of search.py
    cache_key,      \* the aggregator's memoised _cache_key
    dir_mtimes,     \* what _get_dir_mtime reads off the adapters' directories
    sources,        \* adapter -> what its find_sessions returns, in its order
    call,           \* the arguments of the last call
    result,         \* what the last call returned
    lock,           \* the aggregator's reentrant mutex: [owner, count]
    streaming_in_progress,  \* the aggregator's flag
    threads,        \* thread -> its position and locals
    snapshots,      \* the states of the shared map the stream has produced
    raising         \* the adapters whose scan raises an error

searchVars == <<cache, cache_key, dir_mtimes, sources, call, result>>
\* the variables the ingest, diff and schema specifications leave alone
lockVars == <<lock, streaming_in_progress, threads, snapshots>>
faultVars == <<raising>>
restVars == <<searchVars, lockVars, faultVars>>
vars == <<roots, disk, known, diffs, pc, index, compiled, loaded, sessions,
          sessions_by_id, scan, restVars>>
aggVars == <<index, compiled, loaded, sessions, sessions_by_id, scan>>

NoCache == [exists |-> FALSE, valid |-> FALSE, key |-> 0, sessions |-> <<>>]
NoKey == [set |-> FALSE, value |-> 0]
NoCall == [op |-> "none"]
NoLock == [owner |-> "none", count |-> 0]

\* no thread runs
LockInit ==
    /\ lock = NoLock
    /\ streaming_in_progress = FALSE
    /\ threads = <<>>
    /\ snapshots = {}

\* no adapter's scan raises
NoRaising == raising = {}

\* where these specifications keep the variables of the others
RestInit ==
    /\ cache = NoCache
    /\ cache_key = NoKey
    /\ dir_mtimes = 0
    /\ sources = <<>>
    /\ call = NoCall
    /\ result = <<>>
    /\ LockInit
    /\ NoRaising

\* ------------------------------------------------------------------ index

NoStamp == [exists |-> FALSE, valid |-> FALSE, value |-> 0]
BadStamp == [exists |-> TRUE, valid |-> FALSE, value |-> 0]
Stamp(ver) == [exists |-> TRUE, valid |-> TRUE, value |-> ver]

NoIndex == [dir |-> FALSE, stamp |-> NoStamp, open |-> FALSE, docs |-> EmptyBag]

check_version_exists_only(ix, ver) == ix.stamp.exists

\* _check_version: the stamp file exists, reads as an integer, and is ours
check_version(ix, ver) ==
    ix.stamp.exists /\ ix.stamp.valid /\ ix.stamp.value = ver

\* _clear: forget the handle, remove the directory tree
clear(ix) == NoIndex

\* _ensure_index: a cached handle is returned as it is; otherwise a directory
\* with another stamp is removed, and the index is opened or created
ensure_index(ix, ver) ==
    IF ix.open THEN ix
    ELSE LET c == IF ix.dir /\ ~check_version(ix, ver) THEN clear(ix) ELSE ix
         IN  IF c.dir
             THEN [c EXCEPT !.open = TRUE]
             ELSE [dir |-> TRUE, stamp |-> Stamp(ver), open |-> TRUE, docs |-> EmptyBag]

\* tantivy.Document(...) of add_sessions; sv records the schema version of the
\* build that wrote it
to_document(s, ver) == [id |-> s.id, agent |-> s.agent, ts |-> s.ts, sv |-> ver]

\* _doc_to_session
doc_to_session(d) == [id |-> d.id, agent |-> d.agent, ts |-> ToTimestamp(d.ts)]

\* writer.delete_documents_by_term("id", sid) for each sid
without_ids(b, ids) == [d \in {x \in DOMAIN b : x.id \notin ids} |-> b[d]]

delete_sessions_uncommitted(ix, ver, ids) ==
    IF ids = {} THEN ix ELSE ensure_index(ix, ver)

\* delete_sessions: nothing at all for an empty list, else one commit
delete_sessions(ix, ver, ids) ==
    IF ids = {} THEN ix
    ELSE LET o == ensure_index(ix, ver)
         IN  [o EXCEPT !.docs = without_ids(o.docs, ids)]

\* add_sessions: nothing at all for an empty list, else one commit and the stamp
add_sessions(ix, ver, ss) ==
    IF ss = {} THEN ix
    ELSE LET o == ensure_index(ix, ver)
         IN  [o EXCEPT !.docs = o.docs (+) SetToBag({to_document(s, ver) : s \in ss}),
                       !.stamp = Stamp(ver)]

\* the reading calls return nothing without opening when the directory or the
\* stamp is not ours, and open the index otherwise
readable(ix, ver) == ix.dir /\ check_version(ix, ver)
after_read_ensuring(ix, ver) == ensure_index(ix, ver)
after_read(ix, ver) == IF readable(ix, ver) THEN ensure_index(ix, ver) ELSE ix

\* get_known_sessions builds a dict keyed by id: of several documents with one
\* id one entry survives, which one depends on the order of the hits
KnownOf(b) ==
    LET ids == {d.id : d \in DOMAIN b}
    IN  {k \in [ids -> {[ts |-> d.ts, agent |-> d.agent] : d \in DOMAIN b}] :
            \A i \in ids : \E d \in DOMAIN b :
                d.id = i /\ k[i] = [ts |-> d.ts, agent |-> d.agent]}

\* the documents a reading call goes through
read_docs(ix, ver) ==
    IF ~readable(ix, ver) THEN EmptyBag ELSE ensure_index(ix, ver).docs

get_known_sessions(ix, ver) ==
    IF ~readable(ix, ver) THEN {EmptyMap} ELSE KnownOf(read_docs(ix, ver))

\* get_all_sessions of the index: one record per document
SessionsOf(b) ==
    LET ss == {doc_to_session(d) : d \in DOMAIN b}
    IN  [s \in ss |-> BagCardinality([d \in {x \in DOMAIN b : doc_to_session(x) = s} |-> b[d]])]

index_all_sessions(ix, ver) ==
    IF ~readable(ix, ver) THEN EmptyBag ELSE SessionsOf(read_docs(ix, ver))

\* search opens the index whatever the stamp says, then reads its documents
search_visible(ix, ver) == ensure_index(ix, ver).docs

\* ---------------------------------------------------------------- adapters

is_available(rootState) == rootState # "missing"

\* the mtime the scan compares: the file's st_mtime as it is (codex, copilot),
\* or an instant read from the content and passed through a datetime
\* (vibe start_time, opencode time.created, crush updated_at)
session_mtime(ad, f) ==
    IF ad \in SplitIdAdapters THEN f.mt ELSE ToTimestamp(f.mt)

\* _parse_session / _build_session: the record of a file
parse_session(ad, f) == [id |-> f.pid, agent |-> ad, ts |-> ToTimestamp(f.mt)]

\* the ids of the current scan: crush lists the sessions it could build,
\* vibe and opencode the files they could load
current_ids(ad, files) ==
    IF ad = "crush" THEN {c \in DOMAIN files : files[c].ok}
    ELSE {c \in DOMAIN files : files[c].rd}

\* known_entry is None or mtime > known_entry[0] + 0.001
is_new_or_modified(kn, sid, mtime) ==
    sid \notin DOMAIN kn \/ mtime > kn[sid].ts + MTIME_TOLERANCE_NS

deleted_ids_anyagent(ad, kn, current) ==
    {sid \in DOMAIN kn : sid \notin current}

\* [sid for sid, (_, agent) in known.items()
\*      if agent == self.name and sid not in current_ids]
deleted_ids(ad, kn, current) ==
    {sid \in DOMAIN kn : kn[sid].agent = ad /\ sid \notin current}

\* which files have their body parsed: crush builds every session of every
\* database before it compares, the others parse what the comparison selects
parsed_ids(ad, files, selected) ==
    IF ad = "crush" THEN DOMAIN files ELSE selected

\* a diff: the upserts, the deleted ids, and (for the record) the files whose
\* body was parsed to produce it
NoDiff == [done |-> FALSE, up |-> {}, del |-> {}, parsed |-> {}]

unavailable_result_nodelete(ad, kn) ==
    [done |-> TRUE, up |-> {}, del |-> {}, parsed |-> {}]

\* nothing to scan: no upsert, and every known id of this agent is deleted
unavailable_result(ad, kn) ==
    [done |-> TRUE, up |-> {}, del |-> deleted_ids(ad, kn, {}), parsed |-> {}]

\* the scan of a root that is there
scan_sessions(ad, files, kn) ==
    LET cur == current_ids(ad, files)
        sel == {c \in cur : is_new_or_modified(kn, c, session_mtime(ad, files[c]))}
    IN  [done |-> TRUE,
         up |-> {parse_session(ad, files[c]) : c \in {s \in sel : files[s].ok}},
         del |-> deleted_ids(ad, kn, cur),
         parsed |-> parsed_ids(ad, files, sel)]

find_sessions_incremental(ad, rootState, files, kn) ==
    IF ~is_available(rootState) \/ rootState = "degraded"
    THEN unavailable_result(ad, kn)
    ELSE scan_sessions(ad, files, kn)

\* ------------------------------------------------------------- aggregator
\* get_all_sessions over the index: fetch known, fan the adapters out, and
\* either load from the index or commit delete, delete, add and load.

AllUpserts(df) == UNION {df[ad].up : ad \in Adapters}
AllDeleted(df) == UNION {df[ad].del : ad \in Adapters}
UpsertIds(df) == {s.id : s \in AllUpserts(df)}
NoChange(df) == AllUpserts(df) = {} /\ AllDeleted(df) = {}
NoDiffs == [ad \in Adapters |-> NoDiff]

\* the dict built from the list: of several records with one id one survives
ByIdOf(b) ==
    LET ids == {s.id : s \in DOMAIN b}
    IN  {m \in [ids -> DOMAIN b] : \A i \in ids : m[i].id = i}

\* the end of a call: the list and the dict are read from the index, the
\* call's known map and diffs are dropped
LoadFromIndex ==
    LET ss == index_all_sessions(index, compiled)
    IN  /\ sessions' = ss
        /\ sessions_by_id' \in ByIdOf(ss)
        /\ loaded' = TRUE
        /\ index' = after_read(index, compiled)
        /\ known' = EmptyMap
        /\ diffs' = NoDiffs
        /\ pc' = "idle"

NextScan(force) ==
    IF force THEN "forced" ELSE IF scan \in {"first", "again"} THEN "again" ELSE "first"

BeginIngest(force) ==
    /\ pc = "idle"
    /\ ~loaded \/ force
    /\ scan' = NextScan(force)
    /\ \E kn \in (IF force THEN {EmptyMap} ELSE get_known_sessions(index, compiled)) :
          LET df == [ad \in Adapters |->
                        find_sessions_incremental(ad, roots[ad], disk[ad], kn)]
          IN  IF NoChange(df) /\ kn # EmptyMap
              THEN LoadFromIndex
              ELSE /\ known' = kn
                   /\ diffs' = df
                   /\ pc' = "delete_deleted"
                   /\ index' = (IF force THEN index ELSE after_read(index, compiled))
                   /\ UNCHANGED <<loaded, sessions, sessions_by_id>>
    /\ UNCHANGED <<roots, disk, compiled>>
    /\ UNCHANGED restVars

DeleteDeleted ==
    /\ pc = "delete_deleted"
    /\ index' = delete_sessions(index, compiled, AllDeleted(diffs))
    /\ pc' = "delete_upserts"
    /\ UNCHANGED <<roots, disk, known, diffs, compiled, loaded, sessions,
                   sessions_by_id, scan>>
    /\ UNCHANGED restVars

DeleteUpserts ==
    /\ pc = "delete_upserts"
    /\ index' = delete_sessions(index, compiled, UpsertIds(diffs))
    /\ pc' = "add"
    /\ UNCHANGED <<roots, disk, known, diffs, compiled, loaded, sessions,
                   sessions_by_id, scan>>
    /\ UNCHANGED restVars

AddUpserts ==
    /\ pc = "add"
    /\ index' = add_sessions(index, compiled, AllUpserts(diffs))
    /\ pc' = "load"
    /\ UNCHANGED <<roots, disk, known, diffs, compiled, loaded, sessions,
                   sessions_by_id, scan>>
    /\ UNCHANGED restVars

FinishIngest ==
    /\ pc = "load"
    /\ LoadFromIndex
    /\ UNCHANGED <<roots, disk, compiled, scan>>
    /\ UNCHANGED restVars

\* a new process: a new aggregator and a new index handle over the same files
NewAggregator ==
    /\ pc = "idle"
    /\ loaded
    /\ loaded' = FALSE
    /\ sessions' = EmptyBag
    /\ sessions_by_id' = EmptyMap
    /\ index' = [index EXCEPT !.open = FALSE]
    /\ UNCHANGED <<roots, disk, known, diffs, pc, compiled, scan>>
    /\ UNCHANGED restVars

\* ------------------------------------------------------------ environment
\* The tools in use are ActiveTools; the other adapters run over roots that
\* stay empty.  The run starts from any sources over an absent index (a cold
\* start); afterwards one source changes at a time, between two calls of the
\* aggregator, and what the environment writes parses.  A file that is
\* written again keeps its session id and gets a later mtime.

ActiveTools == {"codex", "vibe"}

EnvMTimes == {MtimeAt(i) : i \in 0..EnvTick}

EnvFileRecs(ad, c) == {f \in FileRecs(ad, c) : f.ok /\ f.mt \in EnvMTimes}

EnvFileMaps(ad) ==
    {fm \in FileMaps(ad) : \A c \in DOMAIN fm : fm[c] \in EnvFileRecs(ad, c)}

FileCount ==
    Cardinality({p \in ActiveTools \X Ids : p[2] \in DOMAIN disk[p[1]]})

SourceChanged ==
    /\ scan' = "none"
    /\ UNCHANGED <<known, diffs, pc, index, compiled, loaded, sessions, sessions_by_id>>
    /\ UNCHANGED restVars

WriteFile(ad, c, f) ==
    /\ pc = "idle"
    /\ scan # "none"
    /\ roots[ad] = "present"
    /\ c \in DOMAIN disk[ad] => f.pid = disk[ad][c].pid /\ f.mt > disk[ad][c].mt
    /\ c \notin DOMAIN disk[ad] => FileCount < MaxFiles
    /\ LET fm == [x \in DOMAIN disk[ad] \cup {c} |-> IF x = c THEN f ELSE disk[ad][x]]
       IN  /\ Injective(fm)
           /\ disk' = [disk EXCEPT ![ad] = fm]
    /\ SourceChanged
    /\ UNCHANGED roots

DeleteFile(ad, c) ==
    /\ pc = "idle"
    /\ scan # "none"
    /\ c \in DOMAIN disk[ad]
    /\ disk' = [disk EXCEPT ![ad] = [x \in DOMAIN disk[ad] \ {c} |-> disk[ad][x]]]
    /\ SourceChanged
    /\ UNCHANGED roots

\* the root goes away with what is in it, comes back empty, or (crush) keeps
\* its databases while the projects file cannot be read
SetRoot(ad, st) ==
    /\ pc = "idle"
    /\ scan # "none"
    /\ st \in RootStates(ad) \ {roots[ad]}
    /\ roots' = [roots EXCEPT ![ad] = st]
    /\ disk' = [disk EXCEPT ![ad] = IF ad = "crush" /\ st # "missing" THEN @ ELSE EmptyMap]
    /\ SourceChanged

Init ==
    /\ RestInit
    /\ roots = [ad \in Adapters |-> "present"]
    /\ \E fms \in [ActiveTools -> UNION {EnvFileMaps(ad) : ad \in ActiveTools}] :
          /\ \A ad \in ActiveTools : fms[ad] \in EnvFileMaps(ad)
          /\ disk = [ad \in Adapters |-> IF ad \in ActiveTools THEN fms[ad] ELSE EmptyMap]
    /\ FileCount <= MaxFiles
    /\ known = EmptyMap
    /\ diffs = NoDiffs
    /\ pc = "idle"
    /\ index = NoIndex
    /\ compiled = SCHEMA_VERSION
    /\ loaded = FALSE
    /\ sessions = EmptyBag
    /\ sessions_by_id = EmptyMap
    /\ scan = "none"

Next ==
    \/ \E force \in BOOLEAN : BeginIngest(force)
    \/ DeleteDeleted
    \/ DeleteUpserts
    \/ AddUpserts
    \/ FinishIngest
    \/ NewAggregator
    \/ \E ad \in ActiveTools, c \in Ids : \E f \in EnvFileRecs(ad, c) : WriteFile(ad, c, f)
    \/ \E ad \in ActiveTools, c \in Ids : DeleteFile(ad, c)
    \/ \E ad \in ActiveTools : \E st \in RootStates(ad) : SetRoot(ad, st)

Spec == Init /\ [][Next]_vars

\* -------------------------------------------- the diff as a pure function

OtherAgent(ad) == IF ad = "codex" THEN "vibe" ELSE "codex"

InitDiff ==
    /\ RestInit
    /\ pc = "idle"
    /\ index = NoIndex
    /\ compiled = SCHEMA_VERSION
    /\ loaded = FALSE
    /\ sessions = EmptyBag
    /\ sessions_by_id = EmptyMap
    /\ scan = "none"
    /\ diffs = [ad \in Adapters |-> NoDiff]
    /\ \E s \in Adapters :
        /\ known \in KnownMaps({s, OtherAgent(s)})
        /\ \E st \in RootStates(s) :
              /\ roots = [ad \in Adapters |-> IF ad = s THEN st ELSE "present"]
              /\ \E fm \in FileMaps(s) :
                    /\ st = "missing" => fm = EmptyMap
                    /\ disk = [ad \in Adapters |-> IF ad = s THEN fm ELSE EmptyMap]

ScanOne(ad) ==
    /\ pc = "idle"
    /\ diffs' = [diffs EXCEPT ![ad] = find_sessions_incremental(ad, roots[ad], disk[ad], known)]
    /\ pc' = "scanned"
    /\ UNCHANGED <<roots, disk, known>>
    /\ UNCHANGED aggVars
    /\ UNCHANGED restVars

NextDiff == \E ad \in Adapters : ScanOne(ad)

SpecDiff == InitDiff /\ [][NextDiff]_vars

\* ------------------------------------- the index across schema versions
\* One process at a time uses the index directory through the index's own
\* calls; a restart brings a new handle and possibly a build with another
\* SCHEMA_VERSION; the stamp file can get lost or damaged in between.

Versions == {SCHEMA_VERSION - 1, SCHEMA_VERSION}

SchemaSessions == {[id |-> i, agent |-> "codex", ts |-> 0] : i \in Ids}

InitSchema ==
    /\ RestInit
    /\ roots = [ad \in Adapters |-> "present"]
    /\ disk = [ad \in Adapters |-> EmptyMap]
    /\ known = EmptyMap
    /\ diffs = NoDiffs
    /\ pc = "start"
    /\ index = NoIndex
    /\ compiled \in Versions
    /\ loaded = FALSE
    /\ sessions = EmptyBag
    /\ sessions_by_id = EmptyMap
    /\ scan = "none"

SchemaFrame == UNCHANGED <<roots, disk, diffs, loaded, sessions_by_id, scan, restVars>>

CallAdd(ss) ==
    /\ BagCardinality(index.docs) + Cardinality(ss) <= MaxDocs
    /\ index' = add_sessions(index, compiled, ss)
    /\ pc' = "add_sessions"
    /\ UNCHANGED <<known, sessions, compiled>>
    /\ SchemaFrame

CallDelete(ids) ==
    /\ index' = delete_sessions(index, compiled, ids)
    /\ pc' = "delete_sessions"
    /\ UNCHANGED <<known, sessions, compiled>>
    /\ SchemaFrame

CallKnown ==
    /\ known' \in get_known_sessions(index, compiled)
    /\ index' = after_read(index, compiled)
    /\ pc' = "get_known_sessions"
    /\ UNCHANGED <<sessions, compiled>>
    /\ SchemaFrame

CallAll ==
    /\ sessions' = index_all_sessions(index, compiled)
    /\ index' = after_read(index, compiled)
    /\ pc' = "get_all_sessions"
    /\ UNCHANGED <<known, compiled>>
    /\ SchemaFrame

CallSearch ==
    /\ index' = ensure_index(index, compiled)
    /\ pc' = "search"
    /\ UNCHANGED <<known, sessions, compiled>>
    /\ SchemaFrame

\* the process ends; the next one runs the build of version ver
Restart(ver) ==
    /\ compiled' = ver
    /\ index' = [index EXCEPT !.open = FALSE]
    /\ known' = EmptyMap
    /\ sessions' = EmptyBag
    /\ pc' = "start"
    /\ SchemaFrame

\* the stamp file is removed or overwritten with something unreadable
DamageStamp(st) ==
    /\ index.dir
    /\ index.stamp # st
    /\ index' = [index EXCEPT !.stamp = st]
    /\ pc' = "damaged"
    /\ UNCHANGED <<known, sessions, compiled>>
    /\ SchemaFrame

NextSchema ==
    \/ \E ss \in SUBSET SchemaSessions : CallAdd(ss)
    \/ \E ids \in SUBSET Ids : CallDelete(ids)
    \/ CallKnown
    \/ CallAll
    \/ CallSearch
    \/ \E ver \in Versions : Restart(ver)
    \/ \E st \in {NoStamp, BadStamp} : DamageStamp(st)

SpecSchema == InitSchema /\ [][NextSchema]_vars

\* ------------------------------------------- the aggregator of search.py
\* SessionSearch keeps the list _sessions (the variable sessions, set when
\* loaded), reads the adapters through find_sessions and keeps a JSON cache
\* keyed by the mtimes of the adapters' directories.  Times are integer
\* microseconds, strings are sequences of characters.

MaxSessions == 2   \* sessions the adapters find, all sources together
MaxStamp == 1      \* session timestamps are 0, 0.5 s, .. MaxStamp * 0.5 s
MaxTouch == 1      \* times the directories' mtime moves
MaxLimit == 2      \* limit of a search is 1 .. MaxLimit

SearchAdapters == <<"claude", "codex", "opencode", "vibe">>
SourceTools == {"claude", "vibe"}
Dirs == {<<"A", "b">>, <<"b">>}
DirFilters == {<<>>, <<"a">>, <<"B">>}
AgentFilters == {"", "claude", "vibe"}
Queries == {"", "fix"}
Stamps == {k * 500000 : k \in 0..MaxStamp}

FoundSessions(ad) == [id : Ids, agent : {ad}, directory : Dirs, timestamp : Stamps]

Lower(c) == IF c = "A" THEN "a" ELSE IF c = "B" THEN "b" ELSE c
lower(s) == [i \in 1..Len(s) |-> Lower(s[i])]

\* Python's "a in b" on strings
IsSubstring(a, b) ==
    \E k \in 0..(Len(b) - Len(a)) : \A i \in 1..Len(a) : b[k + i] = a[i]

\* datetime.isoformat() leaves the fraction out when it is zero
isoformat(us) ==
    [seconds |-> us \div 1000000,
     fraction |-> IF us % 1000000 = 0 THEN <<>> ELSE <<us % 1000000>>]

fromisoformat(s) ==
    s.seconds * 1000000 + (IF s.fraction = <<>> THEN 0 ELSE s.fraction[1])

AppendUnsorted(sorted, s) == Append(sorted, s)

\* list.sort(key=lambda s: s.timestamp, reverse=True): stable, newest first
InsertByTimestamp(sorted, s) ==
    LET ahead == {i \in 1..Len(sorted) : sorted[i].timestamp >= s.timestamp}
        n == Cardinality(ahead)
    IN  SubSeq(sorted, 1, n) \o <<s>> \o SubSeq(sorted, n + 1, Len(sorted))

RECURSIVE sort(_)
sort(ss) ==
    IF ss = <<>> THEN <<>>
    ELSE InsertByTimestamp(sort(SubSeq(ss, 1, Len(ss) - 1)), ss[Len(ss)])

\* SessionSearch._get_cache_key: computed once per instance
get_cache_key(ck, dm) == IF ck.set THEN ck.value ELSE dm
memoised(ck, dm) == [set |-> TRUE, value |-> get_cache_key(ck, dm)]

\* what _load_from_cache returns: hit = FALSE stands for None
load_from_cache(file, ck, dm) ==
    IF ~file.exists \/ ~file.valid
    THEN [hit |-> FALSE, sessions |-> <<>>, cache_key |-> ck]
    ELSE IF file.key # get_cache_key(ck, dm)
    THEN [hit |-> FALSE, sessions |-> <<>>, cache_key |-> memoised(ck, dm)]
    ELSE [hit |-> TRUE,
          sessions |-> [i \in 1..Len(file.sessions) |->
                           [id |-> file.sessions[i].id,
                            agent |-> file.sessions[i].agent,
                            directory |-> file.sessions[i].directory,
                            timestamp |-> fromisoformat(file.sessions[i].timestamp)]],
          cache_key |-> memoised(ck, dm)]

\* the file _save_to_cache writes
saved_cache(ss, key) ==
    [exists |-> TRUE, valid |-> TRUE, key |-> key,
     sessions |-> [i \in 1..Len(ss) |->
                      [id |-> ss[i].id, agent |-> ss[i].agent,
                       directory |-> ss[i].directory,
                       timestamp |-> isoformat(ss[i].timestamp)]]]

\* _save_to_cache: the file is written, or the write fails and is passed over
save_to_cache(file, ss, key) == {saved_cache(ss, key), file}

RECURSIVE extend_all(_, _)
extend_all(src, order) ==
    IF order = <<>> THEN <<>>
    ELSE src[order[1]] \o extend_all(src, SubSeq(order, 2, Len(order)))

\* the adapters' lists one after the other, in the order of self.adapters
load_adapters(src) == extend_all(src, SearchAdapters)

\* get_sessions_streaming: each list that is not empty is added when its
\* adapter completes, and the whole is sorted again
stream_adapters_unsorted(src, order) == extend_all(src, order)

RECURSIVE stream_adapters(_, _)
stream_adapters(src, order) ==
    IF order = <<>> THEN <<>>
    ELSE LET before == stream_adapters(src, SubSeq(order, 1, Len(order) - 1))
             found == src[order[Len(order)]]
         IN  IF found = <<>> THEN before ELSE sort(before \o found)

Orders ==
    {o \in [1..Len(SearchAdapters) -> {SearchAdapters[i] : i \in 1..Len(SearchAdapters)}] :
        \A i, j \in 1..Len(SearchAdapters) : o[i] = o[j] => i = j}

\* the outcomes of get_all_sessions(force_refresh): what it returns and
\* leaves in _sessions, the path it took, the memoised key and the cache file
get_all_sessions_rescanning(force_refresh) ==
    LET cached == load_from_cache(cache, cache_key, dir_mtimes)
        fresh == sort(load_adapters(sources))
    IN  {[ret |-> fresh, path |-> "fresh",
          cache_key |-> memoised(cached.cache_key, dir_mtimes), cache |-> file] :
            file \in save_to_cache(cache, fresh,
                                   get_cache_key(cached.cache_key, dir_mtimes))}

get_all_sessions(force_refresh) ==
    IF loaded /\ ~force_refresh
    THEN {[ret |-> sessions, path |-> "memory", cache_key |-> cache_key, cache |-> cache]}
    ELSE LET cached == load_from_cache(cache, cache_key, dir_mtimes)
         IN  IF ~force_refresh /\ cached.hit
             THEN {[ret |-> cached.sessions, path |-> "cache",
                    cache_key |-> cached.cache_key, cache |-> cache]}
             ELSE LET ck == IF force_refresh THEN cache_key ELSE cached.cache_key
                      fresh == sort(load_adapters(sources))
                  IN  {[ret |-> fresh, path |-> "fresh",
                        cache_key |-> memoised(ck, dir_mtimes), cache |-> file] :
                          file \in save_to_cache(cache, fresh, get_cache_key(ck, dir_mtimes))}

SearchFrame ==
    UNCHANGED <<roots, disk, known, diffs, pc, index, compiled, sessions_by_id, scan,
                lockVars, faultVars>>

GetAllSessions(force_refresh) ==
    /\ \E g \in get_all_sessions(force_refresh) :
          /\ sessions' = g.ret
          /\ cache_key' = g.cache_key
          /\ cache' = g.cache
          /\ call' = [op |-> "get_all_sessions", path |-> g.path]
          /\ result' = g.ret
    /\ loaded' = TRUE
    /\ UNCHANGED <<dir_mtimes, sources>>
    /\ SearchFrame

GetSessionsStreaming(order) ==
    /\ LET cached == load_from_cache(cache, cache_key, dir_mtimes)
       IN  IF cached.hit
           THEN /\ sessions' = cached.sessions
                /\ cache_key' = cached.cache_key
                /\ call' = [op |-> "get_sessions_streaming", path |-> "cache"]
                /\ UNCHANGED cache
           ELSE LET all_sessions == stream_adapters(sources, order)
                IN  /\ sessions' = all_sessions
                    /\ cache_key' = memoised(cached.cache_key, dir_mtimes)
                    /\ cache' \in save_to_cache(cache, all_sessions,
                                      get_cache_key(cached.cache_key, dir_mtimes))
                    /\ call' = [op |-> "get_sessions_streaming", path |-> "fresh"]
    /\ result' = sessions'
    /\ loaded' = TRUE
    /\ UNCHANGED <<dir_mtimes, sources>>
    /\ SearchFrame

\* the filters of search, in the code's order; "" and <<>> stand for None
\* and for the empty string, which the code treats alike
filter_agent(ss, agent_filter) ==
    IF agent_filter = "" THEN ss
    ELSE SelectSeq(ss, LAMBDA s : s.agent = agent_filter)

filter_directory_all(ss, directory_filter) == ss

filter_directory(ss, directory_filter) ==
    IF directory_filter = <<>> THEN ss
    ELSE SelectSeq(ss, LAMBDA s : IsSubstring(lower(directory_filter), lower(s.directory)))

\* what the scoring of a query can keep of the filtered list: rapidfuzz's
\* scores are the library's, so any records, in any order, at most limit
ranked(ss, limit) ==
    {[i \in 1..Len(pick) |-> ss[pick[i]]] :
        pick \in {q \in UNION {[1..n -> 1..Len(ss)] : n \in 0..limit} :
                     \A i, j \in 1..Len(q) : q[i] = q[j] => i = j}}

head_uncut(ss, limit) == ss

head(ss, limit) == SubSeq(ss, 1, IF limit < Len(ss) THEN limit ELSE Len(ss))

search(ss, query, agent_filter, directory_filter, limit) ==
    LET filtered == filter_directory(filter_agent(ss, agent_filter), directory_filter)
    IN  IF query = "" THEN {head(filtered, limit)} ELSE ranked(filtered, limit)

Search(query, agent_filter, directory_filter, limit) ==
    /\ \E g \in get_all_sessions(FALSE) :
          /\ sessions' = g.ret
          /\ cache_key' = g.cache_key
          /\ cache' = g.cache
          /\ result' \in search(g.ret, query, agent_filter, directory_filter, limit)
    /\ call' = [op |-> "search", query |-> query, agent_filter |-> agent_filter,
                directory_filter |-> directory_filter, limit |-> limit]
    /\ loaded' = TRUE
    /\ UNCHANGED <<dir_mtimes, sources>>
    /\ SearchFrame

\* a new process: a new SessionSearch over the same files
NewSessionSearch ==
    /\ loaded
    /\ loaded' = FALSE
    /\ sessions' = <<>>
    /\ cache_key' = NoKey
    /\ call' = NoCall
    /\ result' = <<>>
    /\ UNCHANGED <<cache, dir_mtimes, sources>>
    /\ SearchFrame

SourceCount == Len(load_adapters(sources))

\* a tool writes a session, which its adapter lists last; the directories'
\* mtime moves or (a write deeper in the tree) does not
NewSession(ad, s, touch) ==
    /\ SourceCount < MaxSessions
    /\ touch => dir_mtimes < MaxTouch
    /\ sources' = [sources EXCEPT ![ad] = Append(@, s)]
    /\ dir_mtimes' = IF touch THEN dir_mtimes + 1 ELSE dir_mtimes
    /\ UNCHANGED <<cache, cache_key, call, result, loaded, sessions>>
    /\ SearchFrame

\* the cache file is removed, or left cut short by a write that broke off
LoseCache(valid) ==
    /\ cache.exists
    /\ cache' = IF valid THEN [cache EXCEPT !.valid = FALSE] ELSE NoCache
    /\ cache' # cache
    /\ UNCHANGED <<cache_key, dir_mtimes, sources, call, result, loaded, sessions>>
    /\ SearchFrame

SearchInit ==
    /\ roots = [ad \in Adapters |-> "present"]
    /\ disk = [ad \in Adapters |-> EmptyMap]
    /\ known = EmptyMap
    /\ diffs = NoDiffs
    /\ pc = "idle"
    /\ compiled = SCHEMA_VERSION
    /\ sessions_by_id = EmptyMap
    /\ scan = "none"
    /\ loaded = FALSE
    /\ sessions = <<>>
    /\ LockInit
    /\ cache = NoCache
    /\ cache_key = NoKey
    /\ dir_mtimes = 0
    /\ call = NoCall
    /\ result = <<>>

NoSources == [ad \in {SearchAdapters[i] : i \in 1..Len(SearchAdapters)} |-> <<>>]

\* loading: the sources fill while aggregators come and go
InitLoad ==
    /\ SearchInit
    /\ NoRaising
    /\ index = NoIndex
    /\ sources = NoSources

NextLoad ==
    \/ \E force_refresh \in BOOLEAN : GetAllSessions(force_refresh)
    \/ \E order \in Orders : GetSessionsStreaming(order)
    \/ NewSessionSearch
    \/ \E ad \in SourceTools, touch \in BOOLEAN :
          \E s \in FoundSessions(ad) : NewSession(ad, s, touch)
    \/ \E valid \in BOOLEAN : LoseCache(valid)

SpecLoad == InitLoad /\ [][NextLoad]_vars

\* searching: over any sources the tools can have left
FoundLists(ad) == UNION {[1..n -> FoundSessions(ad)] : n \in 0..MaxSessions}

InitSearch ==
    /\ SearchInit
    /\ NoRaising
    /\ index = NoIndex
    /\ \E found \in [SourceTools -> UNION {FoundLists(ad) : ad \in SourceTools}] :
          /\ \A ad \in SourceTools : found[ad] \in FoundLists(ad)
          /\ sources = [ad \in DOMAIN NoSources |->
                           IF ad \in SourceTools THEN found[ad] ELSE <<>>]
    /\ SourceCount <= MaxSessions

NextSearch ==
    \/ \E query \in Queries, agent_filter \in AgentFilters,
          directory_filter \in DirFilters, limit \in 1..MaxLimit :
            Search(query, agent_filter, directory_filter, limit)
    \/ NewSessionSearch
    \/ \E valid \in BOOLEAN : LoseCache(valid)

SpecSearch == InitSearch /\ [][NextSearch]_vars

\* ------------------------------------------------- the index's search
\* TantivyIndex.search over documents whose text fields went through the
\* schema's default tokenizer (add_text_field without tokenizer_name): split
\* at every character that is not alphanumeric, lower-cased.  Texts are
\* sequences of characters.

MaxHits == 2       \* limit of an index search is 1 .. MaxHits

Text_codex == <<"c", "o", "d", "e", "x">>
Text_copilot_cli == <<"c", "o", "p", "i", "l", "o", "t", "-", "c", "l", "i">>
Text_copilot == <<"c", "o", "p", "i", "l", "o", "t">>
AgentTexts == {Text_codex, Text_copilot_cli}
Titles == {<<"a", "a">>, <<"b", "a", "b">>}
Contents == {<<"b", "b">>, <<"a", "b", "-", "a">>, <<"B", "a">>}
QueryTexts == {<<>>, <<" ">>, <<"a", "a", "a">>, <<"a", "b">>, <<"b", "A">>,
               <<"a", "a", "a", " ", "b", "b", "b">>,
               <<"b", "b", "b", " ", " ", "a", "a", "a">>}
AgentFilterTexts == {<<>>, Text_codex, Text_copilot_cli, Text_copilot}
IndexDocs == [id : Ids, agent : AgentTexts, title : Titles, content : Contents]

\* the maximal runs of text without a character of seps
Runs(text, seps) ==
    {SubSeq(text, i, j) : <<i, j>> \in
        {p \in (1..Len(text)) \X (1..Len(text)) :
            /\ p[1] <= p[2]
            /\ \A k \in p[1]..p[2] : text[k] \notin seps
            /\ p[1] = 1 \/ text[p[1] - 1] \in seps
            /\ p[2] = Len(text) \/ text[p[2] + 1] \in seps}}

NonAlphanumeric == {" ", "-"}
Whitespace == {" "}

default_tokenizer(text) == {lower(tok) : tok \in Runs(text, NonAlphanumeric)}

\* query.split()
split(query) == Runs(query, Whitespace)

RemoveAt(s, i) == SubSeq(s, 1, i - 1) \o SubSeq(s, i + 1, Len(s))

\* Levenshtein distance at most 1, a transposition costing 1
within_distance_1(s, t) ==
    \/ s = t
    \/ /\ Len(s) = Len(t)
       /\ \E i \in 1..Len(s) : RemoveAt(s, i) = RemoveAt(t, i)
    \/ /\ Len(s) = Len(t)
       /\ \E i \in 1..(Len(s) - 1) :
             /\ s[i] = t[i + 1]
             /\ s[i + 1] = t[i]
             /\ \A k \in 1..Len(s) : k \notin {i, i + 1} => s[k] = t[k]
    \/ Len(s) = Len(t) + 1 /\ \E i \in 1..Len(s) : RemoveAt(s, i) = t
    \/ Len(t) = Len(s) + 1 /\ \E i \in 1..Len(t) : RemoveAt(t, i) = s

\* fuzzy_term_query(..., distance=1, prefix=True): the term starts with
\* something within distance 1 of the text
fuzzy_prefix_match(text, term) ==
    \E n \in 0..Len(term) : within_distance_1(text, SubSeq(term, 1, n))

fuzzy_term_query(field, text) ==
    [kind |-> "fuzzy", field |-> field, text |-> text, parts |-> {}]
term_query(field, value) ==
    [kind |-> "term", field |-> field, text |-> value, parts |-> {}]
boolean_query(parts) ==
    [kind |-> "boolean", field |-> "", text |-> <<>>, parts |-> parts]

term_occur_should == "Should"

\* how _build_fuzzy_query joins the clauses of the query's terms
term_occur == "Must"

\* TantivyIndex._build_fuzzy_query: per term, title or content; all terms
build_fuzzy_query(query) ==
    {<<term_occur, boolean_query({<<"Should", fuzzy_term_query("title", term)>>,
                                  <<"Should", fuzzy_term_query("content", term)>>})>> :
        term \in split(query)}

\* a document satisfies a query: every Must clause, and some Should clause
\* when there is no Must
RECURSIVE matches(_, _)
matches(doc, q) ==
    CASE q.kind = "fuzzy" ->
            \E term \in default_tokenizer(doc[q.field]) : fuzzy_prefix_match(q.text, term)
      [] q.kind = "term" -> q.text \in default_tokenizer(doc[q.field])
      [] q.kind = "boolean" ->
            LET must == {p \in q.parts : p[1] = "Must"}
                should == {p \in q.parts : p[1] = "Should"}
            IN  /\ \A p \in must : matches(doc, p[2])
                /\ must = {} => \E p \in should : matches(doc, p[2])

\* the hits of searcher.search(q, limit): the scores are the library's, so
\* any limit of the matching documents, in any order
top_hits(docs, limit) ==
    LET n == IF Cardinality(docs) < limit THEN Cardinality(docs) ELSE limit
    IN  {h \in [1..n -> docs] : \A i, j \in 1..n : h[i] = h[j] => i = j}

\* TantivyIndex.search: the hits, each the document found (the code returns
\* its id and score), or nothing when the query is empty or anything raises
index_search(ix, query, agent_filter, limit) ==
    LET query_parts == build_fuzzy_query(query) \cup
                       (IF agent_filter # <<>>
                        THEN {<<"Must", term_query("agent", agent_filter)>>} ELSE {})
        found == {d \in BagToSet(ix.docs) : matches(d, boolean_query(query_parts))}
    IN  IF query_parts = {} THEN {<<>>} ELSE top_hits(found, limit) \cup {<<>>}

QueryFrame ==
    UNCHANGED <<roots, disk, known, diffs, pc, compiled, loaded, sessions,
                sessions_by_id, scan, cache, cache_key, dir_mtimes, sources,
                lockVars, faultVars>>

\* one caller at a time: a search starts when the last one's hits were taken
IndexSearch(query, agent_filter, limit) ==
    /\ call = NoCall
    /\ index' = ensure_index(index, compiled)
    /\ result' \in index_search(index', query, agent_filter, limit)
    /\ call' = [op |-> "index.search", query |-> query,
                agent_filter |-> agent_filter, limit |-> limit]
    /\ QueryFrame

TakeHits ==
    /\ call # NoCall
    /\ call' = NoCall
    /\ result' = <<>>
    /\ UNCHANGED index
    /\ QueryFrame

InitQuery ==
    /\ SearchInit
    /\ NoRaising
    /\ sources = NoSources
    /\ \E docs \in SUBSET IndexDocs :
          /\ Cardinality(docs) <= MaxDocs
          /\ index = [dir |-> TRUE, stamp |-> Stamp(SCHEMA_VERSION), open |-> FALSE,
                      docs |-> SetToBag(docs)]

NextQuery ==
    \/ \E query \in QueryTexts, agent_filter \in AgentFilterTexts, limit \in 1..MaxHits :
          IndexSearch(query, agent_filter, limit)
    \/ TakeHits

SpecQuery == InitQuery /\ [][NextQuery]_vars

\* ------------------------------------------------ parsing a session
\* What each adapter makes of one session's source: the messages it keeps,
\* the content it joins from them, the preview and the message count.  A text
\* is a sequence of runs [c, n] (n times the character c), no two neighbours
\* with the same c; "raquo" is U+00BB, "Acirc" is U+00C2, "nl" a newline.
\* A source is a sequence of entries [role, shape, isMeta, parts]: a message
\* whose body is a string (one text part) or a list of typed parts.

MaxEntries == 2    \* entries of a session's source
MaxParts == 2      \* parts of a message body that is a list

MAX_PREVIEW_LENGTH == 500
MAX_CONTENT_LENGTH == 32768

ParseAdapters == {"claude", "codex", "copilot-cli", "crush", "opencode", "vibe"}

Run(c, n) == <<[c |-> c, n |-> n]>>

Cat(a, b) ==
    IF a = <<>> THEN b
    ELSE IF b = <<>> THEN a
    ELSE IF a[Len(a)].c = b[1].c
    THEN SubSeq(a, 1, Len(a) - 1) \o Run(b[1].c, a[Len(a)].n + b[1].n) \o Tail(b)
    ELSE a \o b

RECURSIVE len(_)
len(text) == IF text = <<>> THEN 0 ELSE text[1].n + len(Tail(text))

\* text[:n]
RECURSIVE Take(_, _)
Take(text, n) ==
    IF text = <<>> \/ n <= 0 THEN <<>>
    ELSE IF text[1].n >= n THEN Run(text[1].c, n)
    ELSE <<text[1]>> \o Take(Tail(text), n - text[1].n)

\* "\n\n".join(messages)
RECURSIVE join(_)
join(messages) ==
    IF messages = <<>> THEN <<>>
    ELSE IF Len(messages) = 1 THEN messages[1]
    ELSE Cat(Cat(messages[1], Run("nl", 2)), join(Tail(messages)))

EmptyText == <<>>
ShortText == Run("h", 1) \o Run("i", 1)
PromptText == Run("f", 1) \o Run("i", 1) \o Run("x", 1) \o Run(" ", 1) \o Run("a", 8)
LongText == Run("y", 600)
ToolText == Run("[", 1) \o Run("t", 1) \o Run("]", 1)
Texts == {EmptyText, ShortText, PromptText, LongText}

UserPrefix == Run("raquo", 1) \o Run(" ", 1)
UserPrefixTwiceEncoded == Run("Acirc", 1) \o Run("raquo", 1) \o Run(" ", 1)
AssistantPrefix == Run(" ", 2)

PartsOf == [type : {"text"}, text : Texts] \cup {[type |-> "tool_result", text |-> EmptyText]}

StrEntries ==
    [role : {"user"}, shape : {"str"}, isMeta : BOOLEAN,
     parts : {<<[type |-> "text", text |-> x]>> : x \in Texts}]
    \cup [role : {"assistant"}, shape : {"str"}, isMeta : {FALSE},
          parts : {<<[type |-> "text", text |-> x]>> : x \in Texts}]
    \cup [role : {"system"}, shape : {"str"}, isMeta : {FALSE},
          parts : {<<[type |-> "text", text |-> PromptText]>>}]

ListEntries ==
    [role : {"user", "assistant"}, shape : {"list"}, isMeta : {FALSE},
     parts : UNION {[1..n -> PartsOf] : n \in 0..MaxParts}]

\* copilot's message bodies are strings, crush's and opencode's lists of parts
Entries(ad) ==
    IF ad = "copilot-cli" THEN StrEntries
    ELSE IF ad \in {"crush", "opencode"} THEN {e \in ListEntries : TRUE}
    ELSE StrEntries \cup ListEntries

\* the texts of the parts of type text, in order
TextParts(parts) ==
    LET kept == SelectSeq(parts, LAMBDA p : p.type = "text")
    IN  [i \in 1..Len(kept) |-> kept[i].text]

NonEmpty(texts) == SelectSeq(texts, LAMBDA x : x # EmptyText)

Prefixed(prefix, texts) == [i \in 1..Len(texts) |-> Cat(prefix, texts[i])]

RolePrefix(role, userPrefix) == IF role = "user" THEN userPrefix ELSE AssistantPrefix

FirstOr(first, texts, least) ==
    LET long == SelectSeq(texts, LAMBDA x : len(x) > least)
    IN  IF first # EmptyText \/ long = <<>> THEN first ELSE long[1]

NoMessages == [messages |-> <<>>, count |-> 0, first |-> EmptyText]

\* ClaudeAdapter._parse_session, one line of the file
claude_entry(acc, e) ==
    IF e.role = "user" /\ e.shape = "str"
    THEN LET content == e.parts[1].text
         IN  [messages |-> IF e.isMeta THEN acc.messages
                           ELSE Append(acc.messages, Cat(UserPrefix, content)),
              count |-> acc.count + 1,
              first |-> IF e.isMeta THEN acc.first ELSE FirstOr(acc.first, <<content>>, 10)]
    ELSE IF e.role = "user"
    THEN [messages |-> acc.messages \o Prefixed(UserPrefix, TextParts(e.parts)),
          count |-> acc.count + (IF e.parts # <<>> /\ e.parts[1].type = "text" THEN 1 ELSE 0),
          first |-> FirstOr(acc.first, TextParts(e.parts), 0)]
    ELSE IF e.role = "assistant"
    THEN [acc EXCEPT !.messages = @ \o Prefixed(AssistantPrefix, NonEmpty(TextParts(e.parts)))]
    ELSE acc

\* CodexAdapter._parse_session: a string body is an event_msg (user_message
\* or agent_reasoning), a list body a response_item
codex_entry(acc, e) ==
    IF e.role = "system" THEN acc
    ELSE IF e.shape = "list"
    THEN [acc EXCEPT !.messages =
             @ \o Prefixed(RolePrefix(e.role, UserPrefix), NonEmpty(TextParts(e.parts)))]
    ELSE IF e.parts[1].text = EmptyText THEN acc
    ELSE IF e.role = "user"
    THEN [acc EXCEPT !.messages = Append(@, Cat(UserPrefix, e.parts[1].text)),
                     !.count = @ + 1]
    ELSE [acc EXCEPT !.messages = Append(@, Cat(AssistantPrefix, e.parts[1].text))]

\* CopilotAdapter._parse_session
copilot_entry(acc, e) ==
    IF e.role = "system" \/ e.parts[1].text = EmptyText THEN acc
    ELSE IF e.role = "user"
    THEN [messages |-> Append(acc.messages, Cat(UserPrefixTwiceEncoded, e.parts[1].text)),
          count |-> acc.count + 1,
          first |-> FirstOr(acc.first, <<e.parts[1].text>>, 10)]
    ELSE [acc EXCEPT !.messages = Append(@, Cat(AssistantPrefix, e.parts[1].text))]

\* " ".join(text_parts)
RECURSIVE join_spaced(_)
join_spaced(texts) ==
    IF texts = <<>> THEN <<>>
    ELSE IF Len(texts) = 1 THEN texts[1]
    ELSE Cat(Cat(texts[1], Run(" ", 1)), join_spaced(Tail(texts)))

\* CrushAdapter._extract_text_from_parts: the texts that are not empty, a
\* short note for a tool result
extract_text_from_parts(parts) ==
    join_spaced(NonEmpty([i \in 1..Len(parts) |->
                    IF parts[i].type = "text" THEN parts[i].text ELSE ToolText]))

\* CrushAdapter._build_session, one message
crush_entry(acc, e) ==
    LET text_content == extract_text_from_parts(e.parts)
    IN  IF text_content = EmptyText THEN acc
        ELSE [messages |-> Append(acc.messages,
                              Cat(RolePrefix(e.role, UserPrefixTwiceEncoded), text_content)),
              count |-> acc.count + 1,
              first |-> IF e.role = "user" THEN FirstOr(acc.first, <<text_content>>, 5)
                        ELSE acc.first]

\* OpenCodeAdapter._get_session_messages, one message
opencode_entry(acc, e) ==
    LET texts == Prefixed(RolePrefix(e.role, UserPrefixTwiceEncoded),
                          NonEmpty(TextParts(e.parts)))
    IN  [acc EXCEPT !.messages = @ \o texts, !.count = @ + Len(texts)]

\* VibeAdapter._parse_session, one message
vibe_entry(acc, e) ==
    IF e.role = "system" THEN acc
    ELSE LET texts == Prefixed(RolePrefix(e.role, UserPrefix), NonEmpty(TextParts(e.parts)))
         IN  [acc EXCEPT !.messages = @ \o texts, !.count = @ + Len(texts)]

adapter_entry(ad, acc, e) ==
    CASE ad = "claude" -> claude_entry(acc, e)
      [] ad = "codex" -> codex_entry(acc, e)
      [] ad = "copilot-cli" -> copilot_entry(acc, e)
      [] ad = "crush" -> crush_entry(acc, e)
      [] ad = "opencode" -> opencode_entry(acc, e)
      [] ad = "vibe" -> vibe_entry(acc, e)

RECURSIVE read_entries(_, _)
read_entries(ad, entries) ==
    IF entries = <<>> THEN NoMessages
    ELSE adapter_entry(ad, read_entries(ad, SubSeq(entries, 1, Len(entries) - 1)),
                       entries[Len(entries)])

\* the checks before a Session is built: TRUE when the adapter returns None
returns_none(ad, acc) ==
    CASE ad \in {"claude", "copilot-cli", "crush"} ->
            acc.first = EmptyText \/ acc.messages = <<>>
      [] ad = "codex" -> acc.count = 0
      [] ad \in {"opencode", "vibe"} -> FALSE

full_content(ad, acc) ==
    IF ad = "claude" THEN Take(join(acc.messages), MAX_CONTENT_LENGTH)
    ELSE join(acc.messages)

preview_whole(content) == content

\* full_content[:MAX_PREVIEW_LENGTH]
preview_of(content) == Take(content, MAX_PREVIEW_LENGTH)

NoSession == [emitted |-> FALSE, agent |-> "", content |-> EmptyText,
              preview |-> EmptyText, message_count |-> 0]

\* _parse_session / _build_session: the Session, or None (emitted = FALSE)
parse_source(ad, entries) ==
    LET acc == read_entries(ad, entries)
        content == full_content(ad, acc)
    IN  IF returns_none(ad, acc) THEN NoSession
        ELSE [emitted |-> TRUE, agent |-> ad, content |-> content,
              preview |-> preview_of(content), message_count |-> acc.count]

\* the fields add_sessions stores of a session's text
stored_fields(s) ==
    [agent |-> s.agent, content |-> s.content, message_count |-> s.message_count]

\* _doc_to_session: the preview is cut from the stored content again
session_of_fields(d) ==
    [emitted |-> TRUE, agent |-> d.agent, content |-> d.content,
     preview |-> preview_of(d.content), message_count |-> d.message_count]

ParseFrame ==
    UNCHANGED <<roots, disk, known, diffs, pc, index, compiled, loaded, sessions,
                sessions_by_id, scan, cache, cache_key, dir_mtimes, sources,
                lockVars, faultVars>>

ParseSession ==
    /\ call.op = "source"
    /\ result' = parse_source(call.adapter, call.entries)
    /\ call' = [call EXCEPT !.op = "parse_session"]
    /\ ParseFrame

\* the record goes through the index and comes back
DocToSession ==
    /\ call.op = "parse_session"
    /\ result.emitted
    /\ result' = session_of_fields(stored_fields(result))
    /\ call' = [call EXCEPT !.op = "doc_to_session"]
    /\ ParseFrame

InitParse ==
    /\ NoRaising
    /\ roots = [ad \in Adapters |-> "present"]
    /\ disk = [ad \in Adapters |-> EmptyMap]
    /\ known = EmptyMap
    /\ diffs = NoDiffs
    /\ pc = "idle"
    /\ index = NoIndex
    /\ compiled = SCHEMA_VERSION
    /\ sessions_by_id = EmptyMap
    /\ scan = "none"
    /\ loaded = FALSE
    /\ sessions = <<>>
    /\ LockInit
    /\ cache = NoCache
    /\ cache_key = NoKey
    /\ dir_mtimes = 0
    /\ sources = <<>>
    /\ result = NoSession
    /\ \E ad \in ParseAdapters :
          \E entries \in UNION {[1..n -> Entries(ad)] : n \in 0..MaxEntries} :
              call = [op |-> "source", adapter |-> ad, entries |-> entries]

NextParse ==
    \/ ParseSession
    \/ DocToSession

SpecParse == InitParse /\ [][NextParse]_vars

\* ------------------------------------------------- claims about the diff

\* the ids an adapter compares, read off the sources: nothing when the root is
\* not there to scan, else what it lists (crush: the sessions it could build)
ScannedIds(ad) ==
    IF roots[ad] # "present" THEN {}
    ELSE {c \in DOMAIN disk[ad] : disk[ad][c].rd /\ (ad = "crush" => disk[ad][c].ok)}

\* the scanned ids that are new to known or more than 1 ms newer than it
ChangedIds(ad) ==
    {c \in ScannedIds(ad) :
        \/ c \notin DOMAIN known
        \/ session_mtime(ad, disk[ad][c]) > known[c].ts + MTIME_TOLERANCE_NS}

\* C2: the upserts of a scan are exactly the parsed records of the scanned ids
\* that are absent from known or more than 1 ms newer than known, and no other
\* scanned id has its body parsed.
C2_UpsertsExactRestNotParsed ==
    \A ad \in Adapters : diffs[ad].done =>
        /\ diffs[ad].up = {parse_session(ad, disk[ad][c]) :
                              c \in {x \in ChangedIds(ad) : disk[ad][x].ok}}
        /\ diffs[ad].parsed \cap (ScannedIds(ad) \ ChangedIds(ad)) = {}

\* C3: the deleted ids of a scan are exactly the ids known records under the
\* adapter's own name that the scan did not list; an id known under another
\* agent is never among them.
C3_DeletedOwnAbsentOnly ==
    \A ad \in Adapters : diffs[ad].done =>
        /\ diffs[ad].del = {i \in DOMAIN known : known[i].agent = ad /\ i \notin ScannedIds(ad)}
        /\ \A i \in diffs[ad].del : known[i].agent = ad

\* C3 witness: a scan over a present root reported a deletion while known held
\* another agent's id that the scan did not list either
C3_Witness ==
    \E ad \in Adapters :
        /\ diffs[ad].done
        /\ roots[ad] = "present"
        /\ diffs[ad].del # {}
        /\ \E i \in DOMAIN known : known[i].agent # ad /\ i \notin ScannedIds(ad)

\* C5: an adapter whose root does not exist returns no upsert and, as deleted,
\* exactly the ids known records under its own name.
C5_MissingRootDeletesOwn ==
    \A ad \in Adapters : diffs[ad].done /\ roots[ad] = "missing" =>
        /\ diffs[ad].up = {}
        /\ diffs[ad].del = {i \in DOMAIN known : known[i].agent = ad}

\* C5 witness: a scan without a root, over a known map that holds an id of the
\* adapter and an id of another agent
C5_Witness ==
    \E ad \in Adapters :
        /\ diffs[ad].done
        /\ roots[ad] = "missing"
        /\ diffs[ad].del # {}
        /\ \E i \in DOMAIN known : known[i].agent # ad

\* ----------------------------------------------- claims about the ingest

Docs == DOMAIN index.docs
DocsOfId(i) == {d \in Docs : d.id = i}

\* the ids an adapter's diff names: its deleted ids and the ids of its upserts
ReportedIds(df, ad) == df[ad].del \cup {s.id : s \in df[ad].up}

\* the source of the session listed under c cannot be read or parsed: the
\* file does not load or parse, the relational query fails, or (crush) the
\* projects file is unreadable
SourceLost(ad, c) ==
    \/ ~disk[ad][c].ok
    \/ ad = "crush" /\ roots[ad] = "degraded"

\* another file of the adapter parses to the id c
ParsedElsewhere(ad, c) ==
    \E d \in DOMAIN disk[ad] \ {c} : disk[ad][d].ok /\ disk[ad][d].pid = c

\* C20: a session known under the adapter whose source is still there but
\* can no longer be read or parsed (and whose id no other file yields) is
\* reported neither as an upsert nor as a deletion.
C20_LostSourceNotReported ==
    \A ad \in Adapters : diffs[ad].done /\ roots[ad] # "missing" =>
        \A c \in DOMAIN disk[ad] :
            (/\ c \in DOMAIN known
             /\ known[c].agent = ad
             /\ SourceLost(ad, c)
             /\ ~ParsedElsewhere(ad, c)) =>
                c \notin ReportedIds(diffs, ad)

\* C1: an ingest that follows an ingest with no change to the sources in
\* between gets an empty diff from every adapter and writes nothing to the
\* index (so it returns the same records).
C1_SecondIngestNoOp ==
    [][/\ scan' = "again" => NoChange(diffs')
       /\ scan = "again" /\ scan' = "again" => index'.docs = index.docs]_vars

\* C4: no step of an ingest removes a document of one agent unless that
\* agent's own adapter reported the document's id (as deleted or as upsert).
C4_NoCrossAgentRemoval ==
    [][\A d \in Docs :
          CopiesIn(d, index'.docs) < CopiesIn(d, index.docs)
              => d.id \in ReportedIds(diffs, d.agent)]_vars

Triples(kn) == {<<i, kn[i].ts, kn[i].agent>> : i \in DOMAIN kn}

\* C7: once get_all_sessions has returned, the (id, timestamp, agent) triples
\* of known_sessions() are exactly those of the returned records.
C7_KnownEqualsReturned ==
    pc = "idle" /\ loaded =>
        \A kn \in get_known_sessions(index, compiled) :
            Triples(kn) = {<<s.id, s.ts, s.agent>> : s \in DOMAIN sessions}

\* C8: after an ingest no indexed session is left with a document more than
\* 1 ms older than its source file: the touched file was parsed again, under
\* the same id, and its new document is there exactly once.
C8_TouchedIsReindexed ==
    pc = "idle" /\ scan \in {"first", "again"} =>
        \A ad \in Adapters : \A c \in DOMAIN disk[ad] :
            LET f == disk[ad][c]
                own == {d \in DocsOfId(f.pid) : d.agent = ad}
            IN  own # {} =>
                    /\ \A d \in own :
                          ~(session_mtime(ad, f) > d.ts + MTIME_TOLERANCE_NS)
                    /\ \A d \in own : CopiesIn(d, index.docs) = 1
                    /\ Cardinality(own) = 1

\* C9: after an ingest every indexed session of an agent whose root exists
\* still has its source file: the id of a deleted file is gone from the
\* index, from sessions_by_id and from what search reads.
C9_DeletedIsRemoved ==
    pc = "idle" /\ scan \in {"first", "again"} =>
        LET HasSource(ag, i) ==
                roots[ag] = "present" =>
                    \E c \in DOMAIN disk[ag] : disk[ag][c].pid = i
        IN  /\ \A d \in Docs : HasSource(d.agent, d.id)
            /\ \A d \in DOMAIN search_visible(index, compiled) : HasSource(d.agent, d.id)
            /\ loaded => \A i \in DOMAIN sessions_by_id :
                             HasSource(sessions_by_id[i].agent, i)

\* ------------------------------------- claims about the schema version

\* C10: when the stamp is not the running build's (another version, missing
\* or unreadable), known_sessions returns the empty map and an open removes
\* the directory and creates it empty under the current stamp; no document
\* written under another schema version is returned by known_sessions,
\* all_sessions or search.
C10_NoForeignSchemaDocs ==
    /\ pc = "get_known_sessions" /\ ~check_version(index, compiled) => known = EmptyMap
    /\ ~check_version(index, compiled) =>
          /\ get_known_sessions(index, compiled) = {EmptyMap}
          /\ ~index.open /\ index.dir =>
                ensure_index(index, compiled) =
                    [dir |-> TRUE, stamp |-> Stamp(compiled), open |-> TRUE,
                     docs |-> EmptyBag]
    /\ \A d \in DOMAIN read_docs(index, compiled) \cup
                DOMAIN search_visible(index, compiled) : d.sv = compiled

\* C10 witness: known_sessions has just answered over a directory that holds
\* documents of another schema version under that version's stamp
C10_Witness ==
    /\ pc = "get_known_sessions"
    /\ index.dir
    /\ index.stamp.valid /\ index.stamp.value # compiled
    /\ \E d \in Docs : d.sv # compiled
    /\ known = EmptyMap

\* ------------------------------------------ claims about search.py

IsNewestFirst(ss) ==
    \A i, j \in 1..Len(ss) : i < j => ss[i].timestamp >= ss[j].timestamp

\* C11: the list get_all_sessions returns is sorted by timestamp, newest
\* first (non-increasing), whichever way it was produced: read fresh from the
\* adapters, loaded from the cache, or already held in memory.
C11_ReturnedNewestFirst ==
    call.op \in {"get_all_sessions", "get_sessions_streaming"} => IsNewestFirst(result)

\* C11 witness: each of the three paths has returned a list in which the
\* adapters' order was not the order returned
C11_Witness ==
    /\ call.op = "get_all_sessions"
    /\ call.path = "cache"
    /\ Len(result) >= 2
    /\ result[1].timestamp > result[2].timestamp
    /\ result # load_adapters(sources)

\* a record passes the filters of the last search
MatchesAt(needle, text, k) ==
    \A i \in 1..Len(needle) : Lower(text[k + i]) = Lower(needle[i])

PassesDirectory(s) ==
    \E k \in 0..(Len(s.directory) - Len(call.directory_filter)) :
        MatchesAt(call.directory_filter, s.directory, k)

PassesAgent(s) == call.agent_filter # "" => s.agent = call.agent_filter

Passes(s) == PassesAgent(s) /\ PassesDirectory(s)

Count(ss, v) == Cardinality({i \in 1..Len(ss) : ss[i] = v})

Passing(ss) == {i \in 1..Len(ss) : Passes(ss[i])}

\* C13: a search with an empty query returns the loaded sessions that pass
\* the agent and directory filters, newest first, cut to the first limit of
\* them: every returned record is a loaded one that passes, as many are
\* returned as pass (at most limit), and a passing record is left out only
\* when limit records that are not older are returned.
C13_EmptyQueryIsFilteredHead ==
    (call.op = "search" /\ call.query = "") =>
        /\ \A i \in 1..Len(result) :
              /\ Passes(result[i])
              /\ Count(result, result[i]) <= Count(sessions, result[i])
        /\ IsNewestFirst(result)
        /\ Len(result) = (IF Cardinality(Passing(sessions)) < call.limit
                          THEN Cardinality(Passing(sessions)) ELSE call.limit)
        /\ \A i \in Passing(sessions) :
              Count(result, sessions[i]) < Count(sessions, sessions[i]) =>
                  /\ Len(result) = call.limit
                  /\ sessions[i].timestamp <= result[Len(result)].timestamp

\* C13 witness: an empty query with a directory filter was answered with the
\* newer of two passing sessions, the limit cutting the other off
C13_Witness ==
    /\ call.op = "search"
    /\ call.query = ""
    /\ call.directory_filter # <<>>
    /\ Cardinality(Passing(sessions)) > call.limit
    /\ Len(result) = call.limit
    /\ sessions[1].timestamp > sessions[2].timestamp

\* C14: whatever the query, every record a search with a directory filter d
\* returns has d, lower-cased, as a substring of its lower-cased directory.
C14_DirectoryFilterHolds ==
    (call.op = "search" /\ call.directory_filter # <<>>) =>
        \A i \in 1..Len(result) : PassesDirectory(result[i])

\* C14 witness: a query with a directory filter returned a record whose
\* directory matches only after case folding, and left a loaded one out
\* whose directory does not match
C14_Witness ==
    /\ call.op = "search"
    /\ call.query # ""
    /\ call.directory_filter # <<>>
    /\ Len(result) = 1
    /\ ~IsSubstring(call.directory_filter, result[1].directory)
    /\ \E i \in 1..Len(sessions) : ~PassesDirectory(sessions[i])

\* ------------------------------------- claims about the index's search

Least(S) == CHOOSE x \in S : \A y \in S : x <= y

\* edit distance: insertions, deletions, substitutions and transpositions
\* of neighbours, each counting 1
RECURSIVE EditDistance(_, _)
EditDistance(s, t) ==
    IF s = <<>> THEN Len(t)
    ELSE IF t = <<>> THEN Len(s)
    ELSE Least({EditDistance(Tail(s), Tail(t)) + (IF Head(s) = Head(t) THEN 0 ELSE 1),
                EditDistance(Tail(s), t) + 1,
                EditDistance(s, Tail(t)) + 1} \cup
               (IF Len(s) >= 2 /\ Len(t) >= 2 /\ s[1] = t[2] /\ s[2] = t[1]
                THEN {EditDistance(Tail(Tail(s)), Tail(Tail(t))) + 1} ELSE {}))

\* the token is within edit distance 1 of the beginning of a term of the
\* document's title or content
TokenMatches(tok, d) ==
    \E term \in default_tokenizer(d.title) \cup default_tokenizer(d.content) :
        \E n \in 0..Len(term) : EditDistance(tok, SubSeq(term, 1, n)) <= 1

\* C12: for a query that is not empty, a document is returned only if every
\* whitespace-separated token of the query matches (edit distance at most 1,
\* prefix match allowed) a term of its title or of its content: the tokens
\* are AND-ed, the two fields OR-ed.
C12_EveryTokenMatches ==
    (call.op = "index.search" /\ split(call.query) # {}) =>
        \A i \in 1..Len(result) : \A tok \in split(call.query) :
            TokenMatches(tok, result[i])

\* C12 witness: a query of two tokens returned a document that matches one
\* token in the title and the other in the content, while the index holds a
\* document that matches only one of the two
C12_Witness ==
    /\ call.op = "index.search"
    /\ Cardinality(split(call.query)) = 2
    /\ call.agent_filter = <<>>
    /\ Len(result) = 1
    /\ \E tok \in split(call.query) :
          \A term \in default_tokenizer(result[1].content) : ~fuzzy_prefix_match(tok, term)
    /\ \E tok \in split(call.query) :
          \A term \in default_tokenizer(result[1].title) : ~fuzzy_prefix_match(tok, term)
    /\ \E d \in BagToSet(index.docs) :
          /\ \E tok \in split(call.query) : TokenMatches(tok, d)
          /\ \E tok \in split(call.query) : ~TokenMatches(tok, d)

\* C15: whatever the query, every record a search with an agent filter a
\* returns has agent equal to a.
C15_AgentFilterHolds ==
    (call.op = "index.search" /\ call.agent_filter # <<>>) =>
        \A i \in 1..Len(result) : result[i].agent = call.agent_filter

\* the query is empty or made of spaces
IsBlank(query) == \A i \in 1..Len(query) : query[i] = " "

\* C25: a search of the index with a query that is empty or whitespace
\* returns no hit, with or without an agent filter.
C25_BlankQueryNoHits ==
    (call.op = "index.search" /\ IsBlank(call.query)) => result = <<>>

\* ------------------------------------------- claims about the records

\* a line of the text begins with U+00BB and a space
HasUserLine(text) ==
    \E k \in 1..(Len(text) - 1) :
        /\ text[k] = [c |-> "raquo", n |-> 1]
        /\ text[k + 1].c = " "
        /\ k = 1 \/ text[k - 1].c = "nl"

\* C18: every record an adapter emits has message_count >= 1 and a content
\* with at least one line that begins with U+00BB and a space; a source with
\* empty content or without a human turn yields no record.
C18_EmittedHasHumanTurn ==
    (call.op = "parse_session" /\ result.emitted) =>
        /\ result.message_count >= 1
        /\ HasUserLine(result.content)

TextLength(text) ==
    LET sum[k \in 0..Len(text)] == IF k = 0 THEN 0 ELSE sum[k - 1] + text[k].n
    IN  sum[Len(text)]

\* p is what text begins with: the same runs, the last one possibly shorter
BeginsWith(text, p) ==
    /\ Len(p) <= Len(text)
    /\ \A k \in 1..Len(p) :
          /\ p[k].c = text[k].c
          /\ IF k < Len(p) THEN p[k].n = text[k].n ELSE p[k].n <= text[k].n

\* C19: for every record, emitted by an adapter or rebuilt from an index
\* document, the preview is the first 500 characters of the content (all of
\* it when it is shorter).
C19_PreviewIsContentHead ==
    (call.op \in {"parse_session", "doc_to_session"} /\ result.emitted) =>
        /\ BeginsWith(result.content, result.preview)
        /\ TextLength(result.preview) =
              (IF TextLength(result.content) < 500 THEN TextLength(result.content) ELSE 500)

\* C19 witness: a record rebuilt from its index document, with a content
\* longer than its preview that changes character within the first 500
C19_Witness ==
    /\ call.op = "doc_to_session"
    /\ result.emitted
    /\ TextLength(result.content) > 500
    /\ Len(result.preview) > 3
    /\ result.preview # result.content

\* ------------------------------------- the aggregator's lock and its threads
\* One streaming thread and the searching threads of the thread-safety
\* tests, over the aggregator's reentrant mutex, its flag and its
\* id -> record map (here an insertion-ordered sequence of records).

MaxDepth == 3       \* how deep a thread nests its acquisitions
MaxBatch == 2       \* sessions one adapter returns
MaxWorkers == 2     \* adapters of the stream
MaxTake == 2        \* the largest limit of a search

Searchers == {"search1", "search2"}
Threads == {"stream"} \cup Searchers
Workers == 1..MaxWorkers

\* threading.RLock: free, or owned by one thread count times
can_acquire(l, t) == l.owner \in {"none", t}

acquire(l, t) == [owner |-> t, count |-> l.count + 1]

release_all(l, t) == IF l.owner = t THEN NoLock ELSE l

release(l, t) ==
    IF l.owner # t THEN l
    ELSE IF l.count = 1 THEN NoLock
    ELSE [l EXCEPT !.count = @ - 1]

\* Session(...): the constructor has run, or (built = FALSE) not to its end
allocated(k, i) == [id |-> <<k, i>>, built |-> FALSE]
make_session(k, i) == [id |-> <<k, i>>, built |-> TRUE]

\* adapter_work: the ids of the sessions adapter k returns
session_ids(k) == [i \in 1..MaxBatch |-> <<k, i>>]

put_last(map, s) ==
    IF map = <<>> THEN <<s>> ELSE [map EXCEPT ![Len(map)] = s]

\* self._sessions_by_id[session.id] = session
put(map, s) ==
    IF \E j \in 1..Len(map) : map[j].id = s.id
    THEN [j \in 1..Len(map) |-> IF map[j].id = s.id THEN s ELSE map[j]]
    ELSE Append(map, s)

\* list(self._sessions_by_id.values())
values(map) == map

\* the first limit of the list
take(list, limit) == SubSeq(list, 1, IF limit < Len(list) THEN limit ELSE Len(list))

NoThread == [pc |-> "idle", held |-> 0, depth |-> 0, limit |-> 0,
             todo |-> {}, local |-> <<>>, ret |-> <<>>]

StreamFrame ==
    UNCHANGED <<roots, disk, known, diffs, pc, index, compiled, loaded, sessions,
                scan, searchVars, faultVars>>

\* with self._lock: entered
Acquire(t, pcs, next) ==
    /\ threads[t].pc \in pcs
    /\ can_acquire(lock, t)
    /\ lock' = acquire(lock, t)
    /\ threads' = [threads EXCEPT ![t].pc = next, ![t].held = @ + 1]

\* with self._lock: left
Release(t, from, next) ==
    /\ threads[t].pc = from
    /\ lock' = release(lock, t)
    /\ threads' = [threads EXCEPT ![t].pc = next, ![t].held = @ - 1]

\* --- the streaming thread
StreamAcquire ==
    /\ \/ Acquire("stream", {"idle"}, "flag_on")
       \/ Acquire("stream", {"built"}, "update")
       \/ Acquire("stream", {"finish"}, "flag_off")
    /\ UNCHANGED <<streaming_in_progress, sessions_by_id, snapshots>>
    /\ StreamFrame

\* self._streaming_in_progress = True / False
SetFlag ==
    /\ threads["stream"].pc \in {"flag_on", "flag_off"}
    /\ streaming_in_progress' = (threads["stream"].pc = "flag_on")
    /\ threads' = [threads EXCEPT !["stream"].pc =
                      IF @ = "flag_on" THEN "flag_on_release" ELSE "flag_off_release"]
    /\ UNCHANGED <<lock, sessions_by_id, snapshots>>
    /\ StreamFrame

\* the with block of the flag is left
FlagRelease ==
    /\ \/ Release("stream", "flag_on_release", "next")
       \/ Release("stream", "flag_off_release", "done")
    /\ UNCHANGED <<streaming_in_progress, sessions_by_id, snapshots>>
    /\ StreamFrame

\* as_completed: the next adapter to finish, or none is left
NextCompleted ==
    /\ threads["stream"].pc = "next"
    /\ \/ /\ threads["stream"].todo = {}
          /\ threads' = [threads EXCEPT !["stream"].pc = "finish"]
       \/ \E k \in threads["stream"].todo :
             threads' = [threads EXCEPT !["stream"].pc = "work",
                                        !["stream"].todo = @ \ {k},
                                        !["stream"].depth = k,
                                        !["stream"].local = <<>>]
    /\ UNCHANGED <<lock, streaming_in_progress, sessions_by_id, snapshots>>
    /\ StreamFrame

\* adapter_work: the constructor of the next session is entered
Allocate ==
    LET th == threads["stream"]
    IN  /\ th.pc = "work"
        /\ threads' = [threads EXCEPT
              !["stream"].pc = "construct",
              !["stream"].local = Append(@, allocated(th.depth, Len(th.local) + 1))]
        /\ UNCHANGED <<lock, streaming_in_progress, sessions_by_id, snapshots>>
        /\ StreamFrame

\* adapter_work: the constructor returns, the session joins the list
Construct ==
    LET th == threads["stream"]
        n == Len(th.local)
    IN  /\ th.pc = "construct"
        /\ threads' = [threads EXCEPT
              !["stream"].pc = IF n = MaxBatch THEN "built" ELSE "work",
              !["stream"].local = [@ EXCEPT ![n] = make_session(th.depth, n)]]
        /\ UNCHANGED <<lock, streaming_in_progress, sessions_by_id, snapshots>>
        /\ StreamFrame

\* update_sessions: one session of the batch enters the map
Update ==
    LET th == threads["stream"]
    IN  /\ th.pc = "update"
        /\ th.local # <<>>
        /\ sessions_by_id' = put(sessions_by_id, Head(th.local))
        /\ threads' = [threads EXCEPT !["stream"].local = Tail(@)]
        /\ UNCHANGED <<lock, streaming_in_progress, snapshots>>
        /\ StreamFrame

\* update_sessions: the with block is left, the map is a snapshot
UpdateRelease ==
    /\ threads["stream"].local = <<>>
    /\ Release("stream", "update", "next")
    /\ snapshots' = snapshots \cup {sessions_by_id}
    /\ UNCHANGED <<streaming_in_progress, sessions_by_id>>
    /\ StreamFrame

\* --- a searching thread
\* search(limit), through depth nested with blocks
StartSearch(t, limit, depth) ==
    /\ threads[t].pc = "idle"
    /\ threads' = [threads EXCEPT ![t].pc = "acquire", ![t].limit = limit,
                                  ![t].depth = depth]
    /\ UNCHANGED <<lock, streaming_in_progress, sessions_by_id, snapshots>>
    /\ StreamFrame

SearchAcquire(t) ==
    /\ threads[t].held < threads[t].depth
    /\ Acquire(t, {"acquire"},
               IF threads[t].held + 1 = threads[t].depth THEN "read" ELSE "acquire")
    /\ UNCHANGED <<streaming_in_progress, sessions_by_id, snapshots>>
    /\ StreamFrame

\* sessions = list(search._sessions_by_id.values())
Read(t) ==
    /\ threads[t].pc = "read"
    /\ threads' = [threads EXCEPT ![t].pc = "release",
                                  ![t].local = values(sessions_by_id)]
    /\ UNCHANGED <<lock, streaming_in_progress, sessions_by_id, snapshots>>
    /\ StreamFrame

SearchRelease(t) ==
    /\ Release(t, "release", IF threads[t].held = 1 THEN "return" ELSE "release")
    /\ UNCHANGED <<streaming_in_progress, sessions_by_id, snapshots>>
    /\ StreamFrame

Return(t) ==
    /\ threads[t].pc = "return"
    /\ threads' = [threads EXCEPT ![t].pc = "done",
                                  ![t].ret = take(threads[t].local, threads[t].limit)]
    /\ UNCHANGED <<lock, streaming_in_progress, sessions_by_id, snapshots>>
    /\ StreamFrame

InitStream ==
    /\ roots = [ad \in Adapters |-> "present"]
    /\ disk = [ad \in Adapters |-> EmptyMap]
    /\ known = EmptyMap
    /\ diffs = NoDiffs
    /\ pc = "idle"
    /\ index = NoIndex
    /\ compiled = SCHEMA_VERSION
    /\ loaded = FALSE
    /\ sessions = <<>>
    /\ scan = "none"
    /\ cache = NoCache
    /\ cache_key = NoKey
    /\ dir_mtimes = 0
    /\ sources = <<>>
    /\ call = NoCall
    /\ result = <<>>
    /\ sessions_by_id = <<>>
    /\ raising = {}
    /\ lock = NoLock
    /\ streaming_in_progress = FALSE
    /\ threads = [t \in Threads |->
                    IF t = "stream" THEN [NoThread EXCEPT !.todo = Workers]
                    ELSE NoThread]
    /\ snapshots = {<<>>}

NextStream ==
    \/ StreamAcquire
    \/ SetFlag
    \/ FlagRelease
    \/ NextCompleted
    \/ Allocate
    \/ Construct
    \/ Update
    \/ UpdateRelease
    \/ \E t \in Searchers, limit \in 1..MaxTake, depth \in 1..MaxDepth :
          StartSearch(t, limit, depth)
    \/ \E t \in Searchers : SearchAcquire(t)
    \/ \E t \in Searchers : Read(t)
    \/ \E t \in Searchers : SearchRelease(t)
    \/ \E t \in Searchers : Return(t)

\* the threads are operating-system threads: one that can run does run
SpecStream == InitStream /\ [][NextStream]_vars /\ WF_vars(NextStream)

\* ------------------------------------- claims about the lock and its threads
AllDone == \A t \in Threads : threads[t].pc = "done"

IsPrefix(a, b) == Len(a) <= Len(b) /\ \A j \in 1..Len(a) : a[j] = b[j]

StreamedIds == {session_ids(k)[i] : k \in Workers, i \in 1..MaxBatch}

MapIds == {sessions_by_id[j].id : j \in 1..Len(sessions_by_id)}

\* what a finished search returned is whole and a prefix of a snapshot; the
\* map of a finished stream holds every streamed session
SearchesConsistent ==
    /\ \A t \in Searchers : threads[t].pc = "done" =>
          /\ \E s \in snapshots : IsPrefix(threads[t].ret, s)
          /\ \A j \in 1..Len(threads[t].ret) : threads[t].ret[j].built
    /\ threads["stream"].pc = "done" => StreamedIds \subseteq MapIds

RaisingTools == {"codex", "vibe"}

NoOutcome == [path |-> "none", raised |-> FALSE, written |-> FALSE,
              reported |-> FALSE, progress |-> <<>>, order |-> <<>>]

\* get_sessions_streaming's loop over as_completed(futures): future.result()
\* re-raises the error of a scan, a list that is not empty is added, sorted
\* and handed to on_progress as a copy
RECURSIVE stream_run(_, _, _)
stream_run(src, order, rs) ==
    IF order = <<>> THEN [all |-> <<>>, progress |-> <<>>, raised |-> FALSE]
    ELSE LET before == stream_run(src, SubSeq(order, 1, Len(order) - 1), rs)
             ad == order[Len(order)]
         IN  IF before.raised THEN before
             ELSE IF ad \in rs THEN [before EXCEPT !.raised = TRUE]
             ELSE IF src[ad] = <<>> THEN before
             ELSE LET all == sort(before.all \o src[ad])
                  IN  [all |-> all, progress |-> Append(before.progress, all),
                       raised |-> FALSE]

\* get_all_sessions: executor.map re-raises the first error among the results
map_raises(rs) == \E i \in 1..Len(SearchAdapters) : SearchAdapters[i] \in rs

\* get_all_sessions(force_refresh) as a whole; written says whether the
\* write of the cache file goes through
LoadAll(force_refresh, written) ==
    LET cached == load_from_cache(cache, cache_key, dir_mtimes)
        ck == IF force_refresh THEN cache_key ELSE cached.cache_key
        fresh == sort(load_adapters(sources))
    IN  /\ IF loaded /\ ~force_refresh
           THEN /\ written
                /\ result' = sessions
                /\ call' = [NoOutcome EXCEPT !.path = "memory"] @@ [op |-> "get_all_sessions"]
                /\ UNCHANGED <<sessions, loaded, cache_key, cache>>
           ELSE IF ~force_refresh /\ cached.hit
           THEN /\ written
                /\ sessions' = cached.sessions
                /\ loaded' = TRUE
                /\ result' = cached.sessions
                /\ cache_key' = cached.cache_key
                /\ call' = [NoOutcome EXCEPT !.path = "cache"] @@ [op |-> "get_all_sessions"]
                /\ UNCHANGED cache
           ELSE IF map_raises(raising)
           THEN /\ written
                /\ result' = <<>>
                /\ cache_key' = ck
                /\ call' = [NoOutcome EXCEPT !.path = "fresh", !.raised = TRUE]
                              @@ [op |-> "get_all_sessions"]
                /\ UNCHANGED <<sessions, loaded, cache>>
           ELSE /\ sessions' = fresh
                /\ loaded' = TRUE
                /\ result' = fresh
                /\ cache_key' = memoised(ck, dir_mtimes)
                /\ cache' = IF written
                            THEN saved_cache(fresh, get_cache_key(ck, dir_mtimes))
                            ELSE cache
                /\ call' = [NoOutcome EXCEPT !.path = "fresh", !.written = written]
                              @@ [op |-> "get_all_sessions"]
        /\ UNCHANGED <<dir_mtimes, sources>>
        /\ SearchFrame

\* get_sessions_streaming(on_progress) as a whole, the adapters completing
\* in the given order
LoadStreaming(order, written) ==
    LET cached == load_from_cache(cache, cache_key, dir_mtimes)
        run == stream_run(sources, order, raising)
    IN  /\ IF cached.hit
           THEN /\ written
                /\ sessions' = cached.sessions
                /\ loaded' = TRUE
                /\ result' = cached.sessions
                /\ cache_key' = cached.cache_key
                /\ call' = [NoOutcome EXCEPT !.path = "cache",
                                             !.progress = <<cached.sessions>>]
                              @@ [op |-> "get_sessions_streaming"]
                /\ UNCHANGED cache
           ELSE IF run.raised
           THEN /\ written
                /\ result' = <<>>
                /\ cache_key' = cached.cache_key
                /\ call' = [NoOutcome EXCEPT !.path = "fresh", !.raised = TRUE,
                                             !.progress = run.progress, !.order = order]
                              @@ [op |-> "get_sessions_streaming"]
                /\ UNCHANGED <<sessions, loaded, cache>>
           ELSE /\ sessions' = run.all
                /\ loaded' = TRUE
                /\ result' = run.all
                /\ cache_key' = memoised(cached.cache_key, dir_mtimes)
                /\ cache' = IF written
                            THEN saved_cache(run.all,
                                     get_cache_key(cached.cache_key, dir_mtimes))
                            ELSE cache
                /\ call' = [NoOutcome EXCEPT !.path = "fresh", !.written = written,
                                             !.progress = run.progress, !.order = order]
                              @@ [op |-> "get_sessions_streaming"]
        /\ UNCHANGED <<dir_mtimes, sources>>
        /\ SearchFrame

InitFault ==
    /\ SearchInit
    /\ index = NoIndex
    /\ raising \in SUBSET RaisingTools
    /\ \E found \in [SourceTools -> UNION {FoundLists(ad) : ad \in SourceTools}] :
          /\ \A ad \in SourceTools : found[ad] \in FoundLists(ad)
          /\ sources = [ad \in DOMAIN NoSources |->
                           IF ad \in SourceTools THEN found[ad] ELSE <<>>]
    /\ SourceCount <= MaxSessions

NextFault ==
    \/ \E force_refresh, written \in BOOLEAN : LoadAll(force_refresh, written)
    \/ \E order \in Orders, written \in BOOLEAN : LoadStreaming(order, written)
    \/ NewSessionSearch

SpecFault == InitFault /\ [][NextFault]_vars

\* ------------------------------------------- claims about failing loads
IsLoad == call.op \in {"get_all_sessions", "get_sessions_streaming"}

\* the sessions of the adapters whose scan does not raise, as a bag
Survivors ==
    LET kept == [ad \in DOMAIN sources |-> IF ad \in raising THEN <<>> ELSE sources[ad]]
    IN  load_adapters(kept)

SeqToBag(s) ==
    LET vals == {s[i] : i \in 1..Len(s)}
    IN  [v \in vals |-> Cardinality({i \in 1..Len(s) : s[i] = v})]

\* C21: a load that scans the adapters completes although one scan raises,
\* and returns the sessions of all the other adapters.
C21_LoadSurvivesScanError ==
    (IsLoad /\ call.path = "fresh") =>
        /\ ~call.raised
        /\ SeqToBag(result) = SeqToBag(Survivors)

\* C22: a load whose cache write fails reports the failure to its caller
\* and leaves no session list in memory, so that the next get_all_sessions
\* scans again.
C22_FailedWriteInvalidates ==
    (IsLoad /\ call.path = "fresh" /\ ~call.raised /\ ~call.written) =>
        /\ call.reported
        /\ ~loaded

\* the sessions found by the first n adapters of the order to complete
FoundSoFar(order, n) == extend_all(sources, SubSeq(order, 1, n))

\* C29: a stream that scans calls on_progress once for each adapter that
\* completes, also for one that found nothing, each time with the sessions
\* received so far, newest first.
C29_ProgressPerAdapter ==
    (call.op = "get_sessions_streaming" /\ call.path = "fresh" /\ ~call.raised) =>
        /\ Len(call.progress) = Len(call.order)
        /\ \A n \in 1..Len(call.progress) :
              /\ SeqToBag(call.progress[n]) = SeqToBag(FoundSoFar(call.order, n))
              /\ IsNewestFirst(call.progress[n])


\* ------------------------------------------------------ the resume command
\* SessionSearch.get_resume_command over the adapters' get_resume_command.
\* A command is a sequence of strings; "<directory>" stands for the
\* session's directory.

ResumeAgents == {"claude", "codex", "copilot-cli", "crush", "opencode", "vibe", "aider"}
ResumeSessions == [agent : ResumeAgents, id : Ids, directory : {"<directory>"},
                   yolo : BOOLEAN]

\* the yolo argument of a call: left out, or given by keyword
YoloArguments == {"absent", "false", "true"}

\* what each adapter's get_resume_command returns; claude, crush and opencode
\* take no yolo parameter
adapter_resume_command(ad, session, yolo) ==
    CASE ad = "claude" -> <<"claude", "--resume", session.id>>
      [] ad = "codex" ->
            <<"codex">>
            \o (IF yolo THEN <<"--dangerously-bypass-approvals-and-sandbox">> ELSE <<>>)
            \o <<"resume", session.id>>
      [] ad = "copilot-cli" ->
            <<"copilot">>
            \o (IF yolo THEN <<"--allow-all-tools", "--allow-all-paths">> ELSE <<>>)
            \o <<"--resume", session.id>>
      [] ad = "crush" -> <<"crush">>
      [] ad = "opencode" -> <<"opencode", session.directory, "--session", session.id>>
      [] ad = "vibe" ->
            <<"vibe">> \o (IF yolo THEN <<"--auto-approve">> ELSE <<>>)
            \o <<"--resume", session.id>>

\* get_adapter_for_session: the first of self.adapters with the agent's
\* name, <<>> for None
get_adapter_for_session(session) ==
    LET at == {i \in 1..Len(SearchAdapters) : SearchAdapters[i] = session.agent}
    IN  IF at = {} THEN <<>>
        ELSE <<SearchAdapters[CHOOSE i \in at : \A j \in at : i <= j]>>

\* SessionSearch.get_resume_command(session): the adapter is called with the
\* session alone, so its yolo parameter keeps its default
get_resume_command(session) ==
    LET adapter == get_adapter_for_session(session)
    IN  IF adapter # <<>>
        THEN adapter_resume_command(adapter[1], session, FALSE)
        ELSE <<>>

\* the call as the caller writes it: the method has no yolo parameter, a
\* call that gives one raises TypeError
GetResumeCommand ==
    /\ call.op = "selected"
    /\ call' = [call EXCEPT !.op = "get_resume_command"]
    /\ result' = IF call.yolo = "absent"
                 THEN [raised |-> FALSE, cmd |-> get_resume_command(call.session)]
                 ELSE [raised |-> TRUE, cmd |-> <<>>]
    /\ QueryFrame
    /\ UNCHANGED index

\* the user selects another session
Select(session, yolo) ==
    /\ call.op = "get_resume_command"
    /\ call' = [op |-> "selected", session |-> session, yolo |-> yolo]
    /\ result' = <<>>
    /\ QueryFrame
    /\ UNCHANGED index

InitResume ==
    /\ roots = [ad \in Adapters |-> "present"]
    /\ disk = [ad \in Adapters |-> EmptyMap]
    /\ known = EmptyMap
    /\ diffs = NoDiffs
    /\ pc = "idle"
    /\ index = NoIndex
    /\ compiled = SCHEMA_VERSION
    /\ loaded = FALSE
    /\ sessions = <<>>
    /\ sessions_by_id = EmptyMap
    /\ scan = "none"
    /\ cache = NoCache
    /\ cache_key = NoKey
    /\ dir_mtimes = 0
    /\ sources = NoSources
    /\ result = <<>>
    /\ LockInit
    /\ NoRaising
    /\ \E session \in ResumeSessions, yolo \in YoloArguments :
          call = [op |-> "selected", session |-> session, yolo |-> yolo]

NextResume ==
    \/ GetResumeCommand
    \/ \E session \in ResumeSessions, yolo \in YoloArguments : Select(session, yolo)

SpecResume == InitResume /\ [][NextResume]_vars

\* ------------------------------------------- claims about the resume command
\* the flags that switch an adapter's approvals off
BypassFlags(ad) ==
    CASE ad = "codex" -> <<"--dangerously-bypass-approvals-and-sandbox">>
      [] ad = "copilot-cli" -> <<"--allow-all-tools", "--allow-all-paths">>
      [] ad = "vibe" -> <<"--auto-approve">>
      [] OTHER -> <<>>

AllBypassFlags ==
    {"--dangerously-bypass-approvals-and-sandbox", "--allow-all-tools",
     "--allow-all-paths", "--auto-approve"}

EffectiveYolo == call.yolo = "true" \/ call.session.yolo

\* C23: the resume command is the one of the adapter named by session.agent
\* (empty when there is none), built with the caller's yolo or the session's;
\* with yolo the adapter's bypass flags follow argv[0] directly, without it
\* no bypass flag appears.
C23_ResumeCommandWithYolo ==
    call.op = "get_resume_command" =>
        LET adapter == get_adapter_for_session(call.session)
            flags == IF adapter = <<>> THEN <<>> ELSE BypassFlags(adapter[1])
        IN  /\ ~result.raised
            /\ adapter = <<>> => result.cmd = <<>>
            /\ adapter # <<>> =>
                  result.cmd = adapter_resume_command(adapter[1], call.session,
                                                      EffectiveYolo)
            /\ EffectiveYolo /\ flags # <<>> =>
                  /\ Len(result.cmd) > Len(flags)
                  /\ SubSeq(result.cmd, 2, 1 + Len(flags)) = flags
            /\ ~EffectiveYolo =>
                  \A k \in 1..Len(result.cmd) : result.cmd[k] \notin AllBypassFlags


\* ------------------------------------------- an ingest that is broken off
\* The ingest once more, with the process terminated between two commits
\* and started again.  The sources change only before the termination, and
\* one ingest follows it.

\* the index as the commits still to come of the running ingest leave it
index_when_completed ==
    CASE pc = "delete_upserts" ->
            add_sessions(delete_sessions(index, compiled, UpsertIds(diffs)),
                         compiled, AllUpserts(diffs))
      [] pc = "add" -> add_sessions(index, compiled, AllUpserts(diffs))
      [] pc = "load" -> index

CrashFrame ==
    UNCHANGED <<cache, cache_key, dir_mtimes, sources, result, lockVars, faultVars>>

\* the process is terminated after a commit of the ingest: the aggregator
\* and its handle are gone, the index directory stays as committed
Terminate ==
    /\ call = NoCall
    /\ pc \in {"delete_upserts", "add", "load"}
    /\ call' = [op |-> "terminated", at |-> pc, forced |-> (scan = "forced"),
                completed |-> index_when_completed.docs]
    /\ pc' = "idle"
    /\ known' = EmptyMap
    /\ diffs' = NoDiffs
    /\ loaded' = FALSE
    /\ sessions' = EmptyBag
    /\ sessions_by_id' = EmptyMap
    /\ index' = [index EXCEPT !.open = FALSE]
    /\ UNCHANGED <<roots, disk, compiled, scan>>
    /\ CrashFrame

\* an ingest starts: any before the termination, one after it, of the kind
\* of the one broken off
BeginAgain(force) ==
    /\ call # NoCall => ~loaded /\ force = call.forced
    /\ BeginIngest(force)

NextCrash ==
    \/ \E force \in BOOLEAN : BeginAgain(force)
    \/ DeleteDeleted
    \/ DeleteUpserts
    \/ AddUpserts
    \/ FinishIngest
    \/ Terminate
    \/ call = NoCall /\ NewAggregator
    \/ /\ call = NoCall
       /\ \E ad \in ActiveTools, c \in Ids : \E f \in EnvFileRecs(ad, c) : WriteFile(ad, c, f)
    \/ /\ call = NoCall
       /\ \E ad \in ActiveTools, c \in Ids : DeleteFile(ad, c)

SpecCrash == Init /\ [][NextCrash]_vars

\* --------------------------------------- claims about the broken-off ingest
\* a complete ingest has followed the termination
Retried == call # NoCall /\ pc = "idle" /\ loaded

\* C24: when an ingest was terminated after one of its commits and one
\* complete ingest over the same sources has followed, the index holds what
\* the first ingest would have left had it run to its end.
C24_RetryEqualsUninterrupted ==
    Retried => index.docs = call.completed


\* ------------------------------------------------- the threads of the TUI
\* The streaming worker and a search worker as before, and the main thread
\* of the TUI, which takes the aggregator's fields directly.

TuiThreads == {"stream", "search1", "ui"}

TuiFrame ==
    UNCHANGED <<roots, disk, known, diffs, pc, index, compiled, loaded, scan,
                searchVars, faultVars, lock, streaming_in_progress,
                sessions_by_id, snapshots>>

\* _initial_load: _load_from_index() gave a list (warm), or None
InitialLoad(warm) ==
    /\ threads["ui"].pc = "idle"
    /\ threads' = [threads EXCEPT !["ui"].pc = IF warm THEN "set_sessions" ELSE "loading"]
    /\ UNCHANGED sessions
    /\ TuiFrame

\* _initial_load: self.search_engine._sessions = sessions
SetSessions ==
    /\ threads["ui"].pc = "set_sessions"
    /\ sessions' = values(sessions_by_id)
    /\ threads' = [threads EXCEPT !["ui"].pc = "loading"]
    /\ TuiFrame

\* _do_search has handed its result to the main thread: _update_results
UpdateResults ==
    /\ threads["ui"].pc = "loading"
    /\ threads["search1"].pc = "done"
    /\ threads' = [threads EXCEPT !["ui"].pc = "read_flag",
                                  !["ui"].local = threads["search1"].ret]
    /\ UNCHANGED sessions
    /\ TuiFrame

\* _update_results: if not self.search_engine._streaming_in_progress:
\*                      self.is_loading = False
ReadFlag ==
    /\ threads["ui"].pc = "read_flag"
    /\ threads' = [threads EXCEPT
          !["ui"].pc = IF streaming_in_progress THEN "loading_shown" ELSE "done"]
    /\ UNCHANGED sessions
    /\ TuiFrame

InitTui ==
    /\ roots = [ad \in Adapters |-> "present"]
    /\ disk = [ad \in Adapters |-> EmptyMap]
    /\ known = EmptyMap
    /\ diffs = NoDiffs
    /\ pc = "idle"
    /\ index = NoIndex
    /\ compiled = SCHEMA_VERSION
    /\ loaded = FALSE
    /\ sessions = <<>>
    /\ scan = "none"
    /\ cache = NoCache
    /\ cache_key = NoKey
    /\ dir_mtimes = 0
    /\ sources = <<>>
    /\ call = NoCall
    /\ result = <<>>
    /\ sessions_by_id = <<>>
    /\ raising = {}
    /\ lock = NoLock
    /\ streaming_in_progress = FALSE
    /\ threads = [t \in TuiThreads |->
                    IF t = "stream" THEN [NoThread EXCEPT !.todo = Workers]
                    ELSE NoThread]
    /\ snapshots = {<<>>}

NextTui ==
    \/ StreamAcquire
    \/ SetFlag
    \/ FlagRelease
    \/ NextCompleted
    \/ Allocate
    \/ Construct
    \/ Update
    \/ UpdateRelease
    \/ \E limit \in 1..MaxTake, depth \in 1..MaxDepth : StartSearch("search1", limit, depth)
    \/ SearchAcquire("search1")
    \/ Read("search1")
    \/ SearchRelease("search1")
    \/ Return("search1")
    \/ \E warm \in BOOLEAN : InitialLoad(warm)
    \/ SetSessions
    \/ UpdateResults
    \/ ReadFlag

SpecTui == InitTui /\ [][NextTui]_vars

\* ------------------------------------------- claims about the TUI's threads
\* the positions from which a thread's next step reads or writes
\* sessions_by_id, streaming_in_progress or the session list
AccessPositions == {"flag_on", "flag_off", "update", "read", "set_sessions", "read_flag"}

\* C26: a thread about to read or write sessions_by_id, streaming_in_progress
\* or the cached session list holds the aggregator's lock.
C26_AccessUnderLock ==
    \A t \in DOMAIN threads :
        threads[t].pc \in AccessPositions => lock.owner = t


\* ------------------------------------------ two callers of search.py's load
\* get_all_sessions and get_sessions_streaming of search.py, step by step,
\* called from two threads (the TUI's streaming worker and its search
\* worker) on one SessionSearch.

LoadThreads == {"worker1", "worker2"}
LoadOps == {"get_all_sessions", "get_sessions_streaming"}

NoCaller == [pc |-> "idle", op |-> "none", ret |-> <<>>]

LoadsFrame ==
    UNCHANGED <<roots, disk, known, diffs, pc, index, compiled, sessions_by_id, scan,
                lock, streaming_in_progress, snapshots, faultVars, dir_mtimes,
                sources, call, result>>

\* a thread calls search (which calls get_all_sessions) or starts the stream
CallLoad(t, op) ==
    /\ threads[t].pc = "idle"
    /\ threads' = [threads EXCEPT ![t].pc = "entered", ![t].op = op]
    /\ UNCHANGED <<sessions, loaded, cache, cache_key>>
    /\ LoadsFrame

\* if self._sessions is not None and not force_refresh: return self._sessions
CheckMemory(t) ==
    /\ threads[t].pc = "entered"
    /\ threads' = IF threads[t].op = "get_all_sessions" /\ loaded
                  THEN [threads EXCEPT ![t].pc = "done", ![t].ret = sessions]
                  ELSE [threads EXCEPT ![t].pc = "cache"]
    /\ UNCHANGED <<sessions, loaded, cache, cache_key>>
    /\ LoadsFrame

\* cached = self._load_from_cache(); a hit is kept and returned, a miss
\* starts the adapters
CheckCache(t) ==
    LET cached == load_from_cache(cache, cache_key, dir_mtimes)
    IN  /\ threads[t].pc = "cache"
        /\ cache_key' = cached.cache_key
        /\ IF cached.hit
           THEN /\ sessions' = cached.sessions
                /\ loaded' = TRUE
                /\ threads' = [threads EXCEPT ![t].pc = "done",
                                              ![t].ret = cached.sessions]
           ELSE /\ threads' = [threads EXCEPT ![t].pc = "scanning"]
                /\ UNCHANGED <<sessions, loaded>>
        /\ UNCHANGED cache
        /\ LoadsFrame

\* the adapters have completed: the list is sorted, kept, saved and returned
FinishScan(t) ==
    LET fresh == sort(load_adapters(sources))
    IN  /\ threads[t].pc = "scanning"
        /\ sessions' = fresh
        /\ loaded' = TRUE
        /\ cache_key' = memoised(cache_key, dir_mtimes)
        /\ cache' \in save_to_cache(cache, fresh, get_cache_key(cache_key, dir_mtimes))
        /\ threads' = [threads EXCEPT ![t].pc = "done", ![t].ret = fresh]
        /\ LoadsFrame

InitLoads ==
    /\ roots = [ad \in Adapters |-> "present"]
    /\ disk = [ad \in Adapters |-> EmptyMap]
    /\ known = EmptyMap
    /\ diffs = NoDiffs
    /\ pc = "idle"
    /\ index = NoIndex
    /\ compiled = SCHEMA_VERSION
    /\ sessions_by_id = EmptyMap
    /\ scan = "none"
    /\ loaded = FALSE
    /\ sessions = <<>>
    /\ cache \in {NoCache, saved_cache(<<>>, 0)}
    /\ cache_key = NoKey
    /\ dir_mtimes \in 0..MaxTouch
    /\ call = NoCall
    /\ result = <<>>
    /\ lock = NoLock
    /\ streaming_in_progress = FALSE
    /\ snapshots = {}
    /\ raising = {}
    /\ threads = [t \in LoadThreads |-> NoCaller]
    /\ \E found \in [SourceTools -> UNION {FoundLists(ad) : ad \in SourceTools}] :
          /\ \A ad \in SourceTools : found[ad] \in FoundLists(ad)
          /\ sources = [ad \in DOMAIN NoSources |->
                           IF ad \in SourceTools THEN found[ad] ELSE <<>>]
    /\ SourceCount <= MaxSessions

NextLoads ==
    \/ \E t \in LoadThreads, op \in LoadOps : CallLoad(t, op)
    \/ \E t \in LoadThreads : CheckMemory(t)
    \/ \E t \in LoadThreads : CheckCache(t)
    \/ \E t \in LoadThreads : FinishScan(t)

SpecLoads == InitLoads /\ [][NextLoads]_vars

\* ------------------------------------------- claims about concurrent loads
\* the threads whose call has the adapters scanning
Scanning == {t \in DOMAIN threads : threads[t].pc = "scanning"}

\* C27: at most one load scans at a time; a call that arrives while another
\* caller's load is running starts no scan of its own.
C27_OneIngestInFlight == Cardinality(Scanning) <= 1


\* ------------------------------------------------------------- warm load
\* warm_load of the aggregator (the TUI's _load_from_index), over the index
\* and the adapters of the ingest specification.

\* list.sort(key=timestamp, reverse=True) over the records read from the
\* index: every order of the records with the newest first (the order of
\* equal timestamps is the order of the index's hits)
any_order(b) ==
    {q \in [1..BagCardinality(b) -> DOMAIN b] : SeqToBag(q) = b}

sorted_descending(b) ==
    {q \in [1..BagCardinality(b) -> DOMAIN b] :
        /\ SeqToBag(q) = b
        /\ \A i, j \in 1..BagCardinality(b) : i < j => q[i].ts >= q[j].ts}

WarmCall(returned, df, after) ==
    [op |-> "warm_load", returned |-> returned, diffs |-> df,
     before |-> index, after |-> after]

WarmLoad ==
    /\ call = NoCall
    /\ pc = "idle"
    /\ ~loaded
    /\ \E kn \in get_known_sessions(index, compiled) :
          LET df == [ad \in Adapters |->
                        find_sessions_incremental(ad, roots[ad], disk[ad], kn)]
              opened == after_read(index, compiled)
              ss == index_all_sessions(opened, compiled)
          IN  /\ index' = opened
              /\ IF kn = EmptyMap \/ ~NoChange(df)
                 THEN /\ result' = <<>>
                      /\ call' = WarmCall("null", df, opened)
                      /\ UNCHANGED sessions_by_id
                 ELSE /\ result' \in sorted_descending(ss)
                      /\ call' = WarmCall("list", df, opened)
                      /\ sessions_by_id' \in ByIdOf(ss)
    /\ UNCHANGED <<roots, disk, known, diffs, pc, compiled, loaded, sessions, scan>>
    /\ UNCHANGED <<cache, cache_key, dir_mtimes, sources, lockVars, faultVars>>

\* the caller has taken the result
WarmReturn ==
    /\ call # NoCall
    /\ call' = NoCall
    /\ result' = <<>>
    /\ UNCHANGED <<roots, disk, known, diffs, pc, index, compiled, loaded, sessions,
                   sessions_by_id, scan>>
    /\ UNCHANGED <<cache, cache_key, dir_mtimes, sources, lockVars, faultVars>>

NextWarm ==
    \/ call = NoCall /\ Next
    \/ WarmLoad
    \/ WarmReturn

SpecWarm == Init /\ [][NextWarm]_vars

\* ------------------------------------------------ claims about warm load
\* what is on disk of an index: the directory, the stamp and the documents
Stored(ix) == <<ix.dir, ix.stamp, ix.docs>>

\* C28: warm_load returns a list exactly when the index holds documents and
\* no adapter reports an upsert or a deletion against it; the list is then
\* every indexed session, newest first; otherwise it returns null; and the
\* index on disk is the same after the call as before it.
C28_WarmLoad ==
    call.op = "warm_load" =>
        /\ call.returned = "list" <=>
              (call.before.docs # EmptyBag /\ NoChange(call.diffs))
        /\ call.returned = "list" =>
              /\ SeqToBag(result) = SessionsOf(call.before.docs)
              /\ \A i, j \in 1..Len(result) : i < j => result[i].ts >= result[j].ts
        /\ call.returned = "null" => result = <<>>
        /\ Stored(call.after) = Stored(call.before)

C28_Witness ==
    /\ call.op = "warm_load"
    /\ call.returned = "list"
    /\ Len(result) = 2
    /\ result[1].ts > result[2].ts


\* ------------------------------------------------- a stream that can fail
\* The stream of the lock specification, with adapters whose work raises:
\* the workers in raising.  The exception leaves the pool through
\* future.result() and ends the stream.

\* adapter_work raises: the stream is left through its exception handler
Raise ==
    /\ threads["stream"].pc = "work"
    /\ threads["stream"].depth \in raising
    /\ threads' = [threads EXCEPT !["stream"].pc = "failed"]
    /\ UNCHANGED <<lock, streaming_in_progress, sessions_by_id, snapshots>>
    /\ StreamFrame

InitFlag ==
    /\ roots = [ad \in Adapters |-> "present"]
    /\ disk = [ad \in Adapters |-> EmptyMap]
    /\ known = EmptyMap
    /\ diffs = NoDiffs
    /\ pc = "idle"
    /\ index = NoIndex
    /\ compiled = SCHEMA_VERSION
    /\ loaded = FALSE
    /\ sessions = <<>>
    /\ scan = "none"
    /\ cache = NoCache
    /\ cache_key = NoKey
    /\ dir_mtimes = 0
    /\ sources = <<>>
    /\ call = NoCall
    /\ result = <<>>
    /\ sessions_by_id = <<>>
    /\ raising \in SUBSET Workers
    /\ lock = NoLock
    /\ streaming_in_progress = FALSE
    /\ threads = [t \in Threads |->
                    IF t = "stream" THEN [NoThread EXCEPT !.todo = Workers]
                    ELSE NoThread]
    /\ snapshots = {<<>>}

NextFlag ==
    \/ StreamAcquire
    \/ SetFlag
    \/ FlagRelease
    \/ NextCompleted
    \/ threads["stream"].depth \notin raising /\ Allocate
    \/ Raise
    \/ Construct
    \/ Update
    \/ UpdateRelease
    \/ \E t \in Searchers, limit \in 1..MaxTake : StartSearch(t, limit, 1)
    \/ \E t \in Searchers : SearchAcquire(t)
    \/ \E t \in Searchers : Read(t)
    \/ \E t \in Searchers : SearchRelease(t)
    \/ \E t \in Searchers : Return(t)

SpecFlag == InitFlag /\ [][NextFlag]_vars

\* ------------------------------------------------- claims about the flag
\* the stream has set the flag and has not reached the end of its commit
Streaming ==
    threads["stream"].pc \in
        {"flag_on_release", "next", "work", "construct", "built", "update", "finish"}

\* the stream has not begun, has returned or has failed
NotStreaming == threads["stream"].pc \in {"idle", "done", "failed"}

ReadyCall(force_refresh) == loaded /\ GetAllSessions(force_refresh)

ServedFromMemory ==
    /\ call'.path = "memory"
    /\ result' = sessions
    /\ UNCHANGED <<sessions, loaded, cache, cache_key>>

\* C31: on an aggregator that has loaded, get_all_sessions without
\* force_refresh returns the list it holds, scans no adapter and writes no
\* cache, whatever happened to the sources; a get_all_sessions that scans
\* again was called with force_refresh.
C31_ReadyServesCached ==
    [][/\ ReadyCall(FALSE) => ServedFromMemory
       /\ (\E f \in BOOLEAN : ReadyCall(f) /\ call'.path # "memory") => ReadyCall(TRUE)]_vars

\* the list was served from memory although the sources hold a session more
C31_Witness ==
    /\ call.op = "get_all_sessions"
    /\ call.path = "memory"
    /\ loaded
    /\ Len(result) < SourceCount


\* --------------------------------------- the loads of search.py, by adapter
\* The two callers of the concurrent-load specification, with the adapters
\* completing one at a time and the commit (self._sessions = ...,
\* _save_to_cache) as the step after the last of them.

AdapterSet == {SearchAdapters[i] : i \in 1..Len(SearchAdapters)}

NoLoader == [pc |-> "idle", op |-> "none", ret |-> <<>>,
             todo |-> {}, local |-> <<>>, start |-> NoCache]

\* the call is entered; start is the cache file as the call finds it
BeginLoad(t, op) ==
    /\ threads[t].pc = "idle"
    /\ threads' = [threads EXCEPT ![t] = [NoLoader EXCEPT !.pc = "entered", !.op = op,
                                                          !.todo = AdapterSet,
                                                          !.start = cache]]
    /\ UNCHANGED <<sessions, loaded, cache, cache_key>>
    /\ LoadsFrame

\* the first adapter of executor.map's order that has not been taken
next_in_order(todo) ==
    SearchAdapters[CHOOSE i \in 1..Len(SearchAdapters) :
        /\ SearchAdapters[i] \in todo
        /\ \A j \in 1..(i - 1) : SearchAdapters[j] \notin todo]

\* one adapter's list joins the call's list: in the adapters' order for
\* get_all_sessions, as they complete and sorted anew for the stream
AdapterCompleted(t, ad) ==
    LET th == threads[t]
        streams == th.op = "get_sessions_streaming"
    IN  /\ th.pc = "scanning"
        /\ ad \in th.todo
        /\ ~streams => ad = next_in_order(th.todo)
        /\ threads' = [threads EXCEPT
              ![t].todo = @ \ {ad},
              ![t].local = IF streams /\ sources[ad] # <<>>
                           THEN sort(@ \o sources[ad])
                           ELSE @ \o sources[ad]]
        /\ UNCHANGED <<sessions, loaded, cache, cache_key>>
        /\ LoadsFrame

\* every adapter has completed: the list is kept, saved and returned
CommitLoad(t) ==
    LET th == threads[t]
        all == IF th.op = "get_sessions_streaming" THEN th.local ELSE sort(th.local)
    IN  /\ th.pc = "scanning"
        /\ th.todo = {}
        /\ sessions' = all
        /\ loaded' = TRUE
        /\ cache_key' = memoised(cache_key, dir_mtimes)
        /\ cache' \in save_to_cache(cache, all, get_cache_key(cache_key, dir_mtimes))
        /\ threads' = [threads EXCEPT ![t].pc = "done", ![t].ret = all]
        /\ LoadsFrame

InitCommit ==
    /\ roots = [ad \in Adapters |-> "present"]
    /\ disk = [ad \in Adapters |-> EmptyMap]
    /\ known = EmptyMap
    /\ diffs = NoDiffs
    /\ pc = "idle"
    /\ index = NoIndex
    /\ compiled = SCHEMA_VERSION
    /\ sessions_by_id = EmptyMap
    /\ scan = "none"
    /\ loaded = FALSE
    /\ sessions = <<>>
    /\ cache \in {NoCache, saved_cache(<<>>, 0)}
    /\ cache_key = NoKey
    /\ dir_mtimes \in 0..MaxTouch
    /\ call = NoCall
    /\ result = <<>>
    /\ lock = NoLock
    /\ streaming_in_progress = FALSE
    /\ snapshots = {}
    /\ raising = {}
    /\ threads = [t \in LoadThreads |-> NoLoader]
    /\ \E found \in [SourceTools -> UNION {FoundLists(ad) : ad \in SourceTools}] :
          /\ \A ad \in SourceTools : found[ad] \in FoundLists(ad)
          /\ sources = [ad \in DOMAIN NoSources |->
                           IF ad \in SourceTools THEN found[ad] ELSE <<>>]
    /\ SourceCount <= MaxSessions

NextCommit ==
    \/ BeginLoad("worker1", "get_sessions_streaming")
    \/ BeginLoad("worker2", "get_all_sessions")
    \/ \E t \in LoadThreads : CheckMemory(t)
    \/ \E t \in LoadThreads : CheckCache(t)
    \/ \E t \in LoadThreads, ad \in AdapterSet : AdapterCompleted(t, ad)
    \/ \E t \in LoadThreads : CommitLoad(t)

SpecCommit == InitCommit /\ [][NextCommit]_vars

\* ------------------------------------------ claims about the stream's writes
\* the stream has been called and has not reached its commit
BeforeCommit(t) ==
    /\ threads[t].op = "get_sessions_streaming"
    /\ threads[t].pc \in {"entered", "cache", "scanning"}

MtimeSetters == {"codex", "copilot-cli", "vibe"}

\* a record as _parse_session leaves it
parsed_record(ad, f) ==
    [id |-> f.pid, agent |-> ad, ts |-> ToTimestamp(f.mt), mtime |-> 0]

\* session.mtime = mtime
set_mtime(ad, f, s) ==
    IF ad \in MtimeSetters THEN [s EXCEPT !.mtime = session_mtime(ad, f)] ELSE s

\* find_sessions: every file that parses
find_sessions(ad, rootState, files) ==
    IF ~is_available(rootState) \/ rootState = "degraded" THEN {}
    ELSE {parsed_record(ad, files[c]) : c \in {s \in DOMAIN files : files[s].ok}}

\* the new_or_modified list of find_sessions_incremental
new_or_modified(ad, rootState, files, kn) ==
    IF ~is_available(rootState) \/ rootState = "degraded" THEN {}
    ELSE LET cur == current_ids(ad, files)
             sel == {c \in cur : is_new_or_modified(kn, c, session_mtime(ad, files[c]))}
         IN  {set_mtime(ad, files[c], parsed_record(ad, files[c])) :
                 c \in {s \in sel : files[s].ok}}

\* ------------------------------------------- claims about the full scan
\* C33: the records of find_sessions are the upserts of
\* find_sessions_incremental over an empty known map, field by field, and
\* that call reports no deletion.
C33_FullScanIsEmptyKnownDiff ==
    \A ad \in Adapters :
        (known = EmptyMap /\ diffs[ad].done) =>
            /\ find_sessions(ad, roots[ad], disk[ad])
                  = new_or_modified(ad, roots[ad], disk[ad], known)
            /\ diffs[ad].del = {}


\* ------------------------------------------------------- the CLI's resume
\* main of cli.py after run_tui has returned.  call holds the position and
\* the pair run_tui returned, result the system calls made so far.
\* A command is [given, argv]: given is FALSE for None.

ResumeCommands ==
    {[given |-> FALSE, argv |-> <<>>], [given |-> TRUE, argv |-> <<>>]}
    \cup {[given |-> TRUE, argv |-> adapter_resume_command(s.agent, s, s.yolo)] :
             s \in {x \in ResumeSessions : x.agent # "aider"}}

\* "None" stands for None
ResumeDirectories == {"None", "", "<directory>"}

\* if resume_cmd:
has_command(resume_cmd) == resume_cmd.given /\ resume_cmd.argv # <<>>

has_directory_always(resume_dir) == TRUE

\* if resume_dir:
has_directory(resume_dir) == resume_dir \notin {"None", ""}

chdir(path) == [fn |-> "chdir", path |-> path, file |-> "", args |-> <<>>]
execvp(file, args) == [fn |-> "execvp", path |-> "", file |-> file, args |-> args]

\* resume_cmd, resume_dir = run_tui(query=query, agent_filter=agent)
RunTui(resume_cmd, resume_dir) ==
    /\ call.op \in {"main", "exit", "replaced"}
    /\ call' = [op |-> "returned", resume_cmd |-> resume_cmd, resume_dir |-> resume_dir]
    /\ result' = <<>>
    /\ QueryFrame
    /\ UNCHANGED index

\* the two tests of main
Branch ==
    /\ call.op = "returned"
    /\ call' = [call EXCEPT !.op =
                   IF ~has_command(call.resume_cmd) THEN "exit"
                   ELSE IF has_directory(call.resume_dir) THEN "chdir"
                   ELSE "execvp"]
    /\ UNCHANGED result
    /\ QueryFrame
    /\ UNCHANGED index

\* os.chdir(resume_dir)
Chdir ==
    /\ call.op = "chdir"
    /\ result' = Append(result, chdir(call.resume_dir))
    /\ call' = [call EXCEPT !.op = "execvp"]
    /\ QueryFrame
    /\ UNCHANGED index

\* os.execvp(resume_cmd[0], resume_cmd): the process is replaced
Execvp ==
    /\ call.op = "execvp"
    /\ result' = Append(result, execvp(call.resume_cmd.argv[1], call.resume_cmd.argv))
    /\ call' = [call EXCEPT !.op = "replaced"]
    /\ QueryFrame
    /\ UNCHANGED index

InitCli ==
    /\ roots = [ad \in Adapters |-> "present"]
    /\ disk = [ad \in Adapters |-> EmptyMap]
    /\ known = EmptyMap
    /\ diffs = NoDiffs
    /\ pc = "idle"
    /\ index = NoIndex
    /\ compiled = SCHEMA_VERSION
    /\ loaded = FALSE
    /\ sessions = <<>>
    /\ sessions_by_id = EmptyMap
    /\ scan = "none"
    /\ cache = NoCache
    /\ cache_key = NoKey
    /\ dir_mtimes = 0
    /\ sources = NoSources
    /\ result = <<>>
    /\ LockInit
    /\ NoRaising
    /\ call = [op |-> "main"]

NextCli ==
    \/ \E resume_cmd \in ResumeCommands, resume_dir \in ResumeDirectories :
          RunTui(resume_cmd, resume_dir)
    \/ Branch
    \/ Chdir
    \/ Execvp

SpecCli == InitCli /\ [][NextCli]_vars

\* --------------------------------------------- claims about the CLI's resume
\* the calls a resume makes, in their order
ExpectedCalls ==
    (IF call.resume_dir \in {"None", ""} THEN <<>> ELSE <<chdir(call.resume_dir)>>)
    \o <<execvp(call.resume_cmd.argv[1], call.resume_cmd.argv)>>

\* C34: with a resume command the CLI changes to the session's directory,
\* when there is one, and then executes argv[0] with the whole argv, and
\* makes no other call; without a command it makes no call at all.
C34_ChdirThenExec ==
    /\ call.op \in {"exit", "replaced"} =>
          IF call.resume_cmd.given /\ call.resume_cmd.argv # <<>>
          THEN call.op = "replaced" /\ result = ExpectedCalls
          ELSE call.op = "exit" /\ result = <<>>
    /\ call.op \in {"returned", "chdir", "execvp"} =>
          /\ \A i \in 1..Len(result) : result[i].fn = "chdir"
          /\ call.op = "chdir" => result = <<>>
          /\ Len(result) = 1 => call.resume_dir \notin {"None", ""}

\* the process has been replaced after a change of directory
C34_Witness ==
    /\ call.op = "replaced"
    /\ Len(result) = 2
    /\ result[1].fn = "chdir"
    /\ result[2].fn = "execvp"
    /\ result[2].file = "codex"


\* ------------------------------------------ claims about ids in the index
\* the documents of the index with the id i, each copy counted
CopiesOfId(i) ==
    BagCardinality([d \in {x \in DOMAIN index.docs : x.id = i} |-> index.docs[d]])

\* C35: the index never holds two documents with one session id.
C35_OneDocumentPerId == \A i \in Ids : CopiesOfId(i) <= 1


\* ------------------------------------------------- the two ids of a file
\* The id the incremental scan reads from a codex or copilot file
\* (_get_session_id_from_file) and the id of the record parsed from it
\* (_parse_session).  A file is the ids of its session_meta (session.start)
\* lines in their order, "" for an id that is empty, and the id its name
\* gives.

MaxMetas == 2      \* session_meta lines of one file

MetaIds == Ids \cup {""}
MetaLists == UNION {[1..n -> MetaIds] : n \in 0..MaxMetas}

\* codex: the first session_meta decides, the name if its id is empty;
\* copilot: the first session.start with an id, the name if there is none
cheap_id(ad, metas, stem) ==
    IF ad = "codex"
    THEN IF metas # <<>> /\ metas[1] # "" THEN metas[1] ELSE stem
    ELSE LET with == {j \in 1..Len(metas) : metas[j] # ""}
         IN  IF with = {} THEN stem
             ELSE metas[CHOOSE j \in with : \A k \in with : j <= k]

\* codex: every session_meta assigns session_id, the name is taken if it is
\* empty at the end; copilot: session_id starts as the name and every
\* session.start assigns it
parsed_id(ad, metas, stem) ==
    IF metas = <<>> THEN stem
    ELSE IF ad = "codex"
    THEN IF metas[Len(metas)] # "" THEN metas[Len(metas)] ELSE stem
    ELSE metas[Len(metas)]

\* a session file is met
NextFile(ad, metas, stem) ==
    /\ call.op \in {"none", "scanned"}
    /\ call' = [op |-> "file", agent |-> ad, metas |-> metas, stem |-> stem]
    /\ result' = <<>>
    /\ QueryFrame
    /\ UNCHANGED index

\* the scan keys the file, the parse builds its record
ScanAndParse ==
    /\ call.op = "file"
    /\ call' = [call EXCEPT !.op = "scanned"]
    /\ result' = [key |-> cheap_id(call.agent, call.metas, call.stem),
                  id |-> parsed_id(call.agent, call.metas, call.stem)]
    /\ QueryFrame
    /\ UNCHANGED index

InitIds ==
    /\ roots = [ad \in Adapters |-> "present"]
    /\ disk = [ad \in Adapters |-> EmptyMap]
    /\ known = EmptyMap
    /\ diffs = NoDiffs
    /\ pc = "idle"
    /\ index = NoIndex
    /\ compiled = SCHEMA_VERSION
    /\ loaded = FALSE
    /\ sessions = <<>>
    /\ sessions_by_id = EmptyMap
    /\ scan = "none"
    /\ cache = NoCache
    /\ cache_key = NoKey
    /\ dir_mtimes = 0
    /\ sources = NoSources
    /\ result = <<>>
    /\ LockInit
    /\ NoRaising
    /\ call = NoCall

NextIds ==
    \/ \E ad \in SplitIdAdapters, metas \in MetaLists, stem \in Ids :
          NextFile(ad, metas, stem)
    \/ ScanAndParse

SpecIds == InitIds /\ [][NextIds]_vars

\* ------------------------------------------ claims about the two ids
\* C36: the id under which the incremental scan keys a file is the id of
\* the record parsed from that file.
C36_CheapIdIsParsedId ==
    call.op = "scanned" => result.key = result.id


\* --------------------------------------------- a session that is continued
\* One indexed session whose tool appends messages to it.  call holds the
\* source: st the tick of the file's st_mtime, ct the tick of the instant
\* kept in the content (vibe start_time, opencode time.created, crush
\* updated_at), body the number of appends.  result holds what the index
\* serves; known the entry of the session.

MaxBody == 2      \* appends to one session

\* the adapters that compare an instant of the content
ContentTimeAdapters == {"vibe", "opencode", "crush"}

\* the value find_sessions_incremental compares with known
compared_mtime(ad, src) ==
    IF ad \in ContentTimeAdapters THEN ToTimestamp(MtimeAt(src.ct)) ELSE MtimeAt(src.st)

\* the timestamp of the parsed record
parsed_timestamp(ad, src) ==
    IF ad \in ContentTimeAdapters THEN ToTimestamp(MtimeAt(src.ct))
    ELSE ToTimestamp(MtimeAt(src.st))

\* the tool appends to the session dt ticks later: the file's mtime moves,
\* crush sets updated_at, start_time and time.created stay
AppendMessages(dt) ==
    /\ call.op = "indexed"
    /\ call.body < MaxBody
    /\ call.st + dt <= MaxTick
    /\ call' = [call EXCEPT !.op = "changed",
                            !.body = @ + 1,
                            !.st = @ + dt,
                            !.ct = IF call.agent = "crush" THEN call.st + dt ELSE @]
    /\ UNCHANGED <<result, known>>
    /\ UNCHANGED <<roots, disk, diffs, pc, index, compiled, loaded, sessions,
                   sessions_by_id, scan, cache, cache_key, dir_mtimes, sources,
                   lockVars, faultVars>>

\* the next incremental scan and the ingest of what it reports
ScanChanged ==
    LET ad == call.agent
        upsert == is_new_or_modified(known, call.id, compared_mtime(ad, call))
    IN  /\ call.op = "changed"
        /\ call' = [call EXCEPT !.op = "indexed"]
        /\ IF upsert
           THEN /\ result' = [body |-> call.body]
                /\ known' = [known EXCEPT
                                ![call.id] = [ts |-> parsed_timestamp(ad, call), agent |-> ad]]
           ELSE UNCHANGED <<result, known>>
        /\ UNCHANGED <<roots, disk, diffs, pc, index, compiled, loaded, sessions,
                       sessions_by_id, scan, cache, cache_key, dir_mtimes, sources,
                       lockVars, faultVars>>

InitAppend ==
    /\ roots = [ad \in Adapters |-> "present"]
    /\ disk = [ad \in Adapters |-> EmptyMap]
    /\ diffs = NoDiffs
    /\ pc = "idle"
    /\ index = NoIndex
    /\ compiled = SCHEMA_VERSION
    /\ loaded = FALSE
    /\ sessions = <<>>
    /\ sessions_by_id = EmptyMap
    /\ scan = "none"
    /\ cache = NoCache
    /\ cache_key = NoKey
    /\ dir_mtimes = 0
    /\ sources = NoSources
    /\ LockInit
    /\ NoRaising
    /\ result = [body |-> 0]
    /\ \E ad \in Adapters, i \in Ids, st \in 0..1 :
          /\ call = [op |-> "indexed", agent |-> ad, id |-> i, st |-> st, ct |-> st,
                     body |-> 0]
          /\ known = [x \in {i} |-> [ts |-> parsed_timestamp(ad, call), agent |-> ad]]

NextAppend ==
    \/ \E dt \in 1..2 : AppendMessages(dt)
    \/ ScanChanged

SpecAppend == InitAppend /\ [][NextAppend]_vars

\* ------------------------------------ claims about a continued session
\* C37: after the scan that follows a change of a session's content, the
\* index serves the session's current content.
C37_ChangedIsUpserted ==
    call.op = "indexed" => result.body = call.body


\* ------------------------------------------ claims about a forced refresh
\* the records the adapters produce from the sources as they are
Produced ==
    UNION {{[id |-> s.id, agent |-> s.agent, ts |-> s.ts] :
               s \in find_sessions(ad, roots[ad], disk[ad])} : ad \in Adapters}

\* C38: when get_all_sessions(force_refresh = TRUE) has completed, the
\* documents of the index are the records the adapters produce now; none is
\* left of a session whose source is gone.
C38_ForcedRefreshExact ==
    (pc = "idle" /\ scan = "forced") =>
        {doc_to_session(d) : d \in Docs} = Produced


\* ------------------------------------- claims about the two ways to load
\* a step of get_sessions_streaming on an aggregator that has not loaded
FreshStream == ~loaded /\ \E order \in Orders : GetSessionsStreaming(order)

Descending(ss) == \A i, j \in 1..Len(ss) : i < j => ss[i].timestamp >= ss[j].timestamp

\* two cache files with the same key and the same records
SameCache(a, b) ==
    /\ a.exists = b.exists
    /\ a.valid = b.valid
    /\ a.key = b.key
    /\ SeqToBag(a.sessions) = SeqToBag(b.sessions)

\* C39: on an aggregator that has not loaded, the list the stream returns
\* is newest first and holds the records get_all_sessions would return from
\* the same state, and the stream leaves the list in memory, the memoised
\* key and the cache file as get_all_sessions would.
C39_StreamEqualsLoad ==
    [][FreshStream =>
          /\ Descending(result')
          /\ sessions' = result'
          /\ \E g \in get_all_sessions(FALSE) :
                /\ Descending(g.ret)
                /\ SeqToBag(g.ret) = SeqToBag(result')
                /\ g.path = call'.path
                /\ g.cache_key = cache_key'
                /\ SameCache(g.cache, cache')]_vars

\* a stream has scanned two sessions that the adapters list oldest first
C39_Witness ==
    /\ call.op = "get_sessions_streaming"
    /\ call.path = "fresh"
    /\ Len(result) = 2
    /\ result[1].timestamp > result[2].timestamp
    /\ result # load_adapters(sources)


\* ------------------------------------------- the store and its sources
\* The loads of search.py while the tools write.  _get_dir_mtime looks at a
\* tool's directory and at its immediate children: a session file added to
\* a project directory of claude moves a child's mtime, a file added to
\* codex's YYYY/MM/DD moves it only when the year directory is new, and an
\* append to a file that exists moves no directory's mtime at all.

StoreTools == {"claude", "codex"}

\* whether adding a session file can leave the watched mtimes alone
adds_deep(ad) == ad = "codex"

AddSession(ad, s, touch) ==
    /\ ~touch => adds_deep(ad)
    /\ NewSession(ad, s, touch)

\* the tool continues session k of ad: the record's timestamp (the file's
\* mtime) moves to a later instant, the directories' mtimes stay
ModifySession(ad, k, later) ==
    /\ k \in 1..Len(sources[ad])
    /\ later \in Stamps
    /\ later > sources[ad][k].timestamp
    /\ sources' = [sources EXCEPT ![ad][k].timestamp = later]
    /\ UNCHANGED <<dir_mtimes, cache, cache_key, call, result, loaded, sessions>>
    /\ SearchFrame

NextStore ==
    \/ GetAllSessions(FALSE)
    \/ \E order \in Orders : GetSessionsStreaming(order)
    \/ NewSessionSearch
    \/ \E ad \in StoreTools, touch \in BOOLEAN :
          \E s \in FoundSessions(ad) : AddSession(ad, s, touch)
    \/ \E ad \in StoreTools, k \in 1..MaxSessions, later \in Stamps :
          ModifySession(ad, k, later)

SpecStore == InitLoad /\ [][NextStore]_vars

\* ------------------------------------- claims about the persisted store
\* a load without force_refresh, on an aggregator that has not loaded, that
\* is answered from the cache file
ServedFromStore ==
    /\ ~loaded
    /\ \/ GetAllSessions(FALSE)
       \/ \E order \in Orders : GetSessionsStreaming(order)
    /\ call'.path = "cache"

\* C40: a load that a fresh aggregator answers from the persisted store
\* returns the sessions the sources hold now: after a session was added or
\* modified the store is not served.
C40_StoreServedOnlyIfCurrent ==
    [][ServedFromStore =>
          SeqToBag(result') = SeqToBag(load_adapters(sources))]_vars


====
